---- MODULE Spec2Model ----
(***************************************************************************)
(* fsconnectors: the bulk transfer engine (fsconnectors/cli.py, class CLI) *)
(* and the multipart writer (fsconnectors/utils/s3.py), as state machines. *)
(*                                                                         *)
(* The specifications share the variables below:                           *)
(*   SpecPlan    the chunk plan of _upload_file_multipart, a pure function *)
(*   SpecLoss    the loss percentage of an aborted close, a pure function  *)
(*   SpecLocal   copy / move / remove of the local connector               *)
(*   SpecRetarget  the destination path of a job, a pure function          *)
(*   SpecPaths   _prepare_paths, a pure function                           *)
(*   SpecS3      recursive copy / move of the S3 connector                 *)
(*   SpecWriter  one AsyncMultipartWriter session driven by arbitrary      *)
(*               concurrent write() calls                                  *)
(*   Spec        one CLI.upload / CLI.download invocation                  *)
(*   SpecLive    the same, for worker and retry counts >= 1, with fairness *)
(***************************************************************************)
EXTENDS Integers, Sequences, FiniteSets, TLC

VARIABLES
    plan,        \* SpecPlan: arguments and locals of the chunk plan
    lossv,       \* SpecLoss: arguments and result of the loss computation of close
    lc,          \* SpecLocal: the file system and the copy / move / remove call on it
    rt,          \* SpecRetarget: the roots, the entry's path and its destination path
    pp,          \* SpecPaths: the arguments of _prepare_paths and what it returns
    s3,          \* SpecS3: the bucket and the copy / move call of the S3 connector
    w,           \* the AsyncMultipartWriter object: _upload_id, _part_num, _part_info
    uploads,     \* the backend: one record per upload id it has handed out
    inflight,    \* upload_part calls that were issued and have not returned
    raised,      \* the exception the last writer call raised ("none" if it returned)
    cfg,         \* Spec: the arguments of the upload / download call, and (root)
                 \* what the source path names when the call is made
    files,       \* the scan result, a list of FSEntry (the index stands for the path)
    small_files, \* upload(): the list handed to _upload_files
    large_files, \* upload(): the list handed to _upload_files_multipart
    pc,          \* where the call is: "scan", "start", "pool", "large", "job",
                 \* "returned", "raised"
    idx,         \* position of the for loop in the list it iterates
    active,      \* AioPool: the jobs that hold a slot of the pool
    job,         \* per file: the locals of its _upload_file / _download_file /
                 \* _upload_file_multipart coroutine
    mp,          \* locals of the running _upload_file_multipart beyond `job`
    error_files, \* the list the call returns
    files_n,     \* files_pbar.n
    bytes_n      \* bytes_pbar.n

pureVars == <<plan, lossv, lc, rt, pp, s3>>
writerVars == <<w, uploads, inflight, raised>>
engineVars == <<cfg, files, small_files, large_files, pc, idx, active, job, mp,
                error_files, files_n, bytes_n>>
vars == <<plan, lossv, lc, rt, pp, s3, w, uploads, inflight, raised, cfg, files, small_files, large_files,
          pc, idx, active, job, mp, error_files, files_n, bytes_n>>

(***************************************************************************)
(* Bounds of the model.                                                    *)
(***************************************************************************)
MaxFileSize == 12      \* SpecPlan: file sizes 1..MaxFileSize
MaxChunkSize == 4      \* SpecPlan: configured chunk sizes 1..MaxChunkSize
MaxChunksCap == 4      \* SpecPlan: max_chunks_number 1..MaxChunksCap
MaxWrites == 3         \* SpecWriter: write() calls per session
MaxSmallPart == 3      \* SpecWriter: caller-supplied part numbers 0..MaxSmallPart
MaxSubmitted == 50     \* SpecLoss: submitted parts 1..MaxSubmitted
MaxData == 2           \* SpecLocal: contents 1..MaxData of a file or a directory tree
MaxPathLen == 2        \* SpecRetarget: characters in a root and in a suffix
MaxRemoteLen == 5      \* SpecPaths: characters in s3_path
MaxLocalLen == 2       \* SpecPaths: characters in local_path
MaxKeyLen == 3         \* SpecS3: characters in a directory key and in a suffix
MaxObjects == 2        \* SpecS3: objects under the source directory at the call
MaxPuts == 1           \* SpecS3: objects another client adds during the call

(***************************************************************************)
(* Program constants.                                                      *)
(***************************************************************************)
MaxPartNumber == 10000
Percent == 100         \* the factor of the loss computation
MantissaBits == 53     \* significand of a Python float (IEEE 754 binary64)

(***************************************************************************)
(* Chunk plan: cli.py, _upload_file_multipart, lines 254-257.              *)
(***************************************************************************)

\* int(math.ceil(a / float(b))) for a >= 0, b >= 1.  The quotient of two
\* integers below 2^53 is correctly rounded, so the result is the exact
\* ceiling for every file size the model (and any real file) has.
CeilDivFloor(a, b) == a \div b

CeilDiv(a, b) == (a + b - 1) \div b

\* line 256: chunk_size = file_size // max_chunks_number + 1
RecomputedChunkSizeCeil(file_size, max_chunks_number) ==
    (file_size + max_chunks_number - 1) \div max_chunks_number

RecomputedChunkSize(file_size, max_chunks_number) ==
    file_size \div max_chunks_number + 1

\* lines 254-257: the plan the job reads the file with
ChunkPlanCountAtCap(file_size, chunk_size, max_chunks_number) ==
    LET naive == CeilDiv(file_size, chunk_size)
    IN  IF naive > max_chunks_number
        THEN [chunk_size |-> RecomputedChunkSize(file_size, max_chunks_number),
              chunks_number |-> max_chunks_number,
              recomputed |-> TRUE]
        ELSE [chunk_size |-> chunk_size,
              chunks_number |-> naive,
              recomputed |-> FALSE]

ChunkPlan(file_size, chunk_size, max_chunks_number) ==
    LET naive == CeilDiv(file_size, chunk_size)
    IN  IF naive > max_chunks_number
        THEN LET cs == RecomputedChunkSize(file_size, max_chunks_number)
             IN  [chunk_size |-> cs,
                  chunks_number |-> CeilDiv(file_size, cs),
                  recomputed |-> TRUE]
        ELSE [chunk_size |-> chunk_size,
              chunks_number |-> naive,
              recomputed |-> FALSE]

PlanInit ==
    \E s \in 1..MaxFileSize, c \in 1..MaxChunkSize, m \in 1..MaxChunksCap :
        plan = [stage |-> "args", file_size |-> s, chunk_size_arg |-> c,
                max_chunks_number |-> m, chunk_size |-> c, chunks_number |-> 0,
                recomputed |-> FALSE]

PlanIdle ==
    plan = [stage |-> "unused", file_size |-> 0, chunk_size_arg |-> 0,
            max_chunks_number |-> 0, chunk_size |-> 0, chunks_number |-> 0,
            recomputed |-> FALSE]

ComputePlan ==
    /\ plan.stage = "args"
    /\ LET p == ChunkPlan(plan.file_size, plan.chunk_size_arg, plan.max_chunks_number)
       IN  plan' = [plan EXCEPT !.stage = "planned",
                                !.chunk_size = p.chunk_size,
                                !.chunks_number = p.chunks_number,
                                !.recomputed = p.recomputed]
    /\ UNCHANGED <<lossv, lc, rt, pp, s3, writerVars, engineVars>>

(***************************************************************************)
(* Loss percentage: utils/s3.py line 145 (also 61, and multipart.py 79):   *)
(*     loss = int((self._part_num - len(uploaded_parts))                   *)
(*                / self._part_num * 100)                                  *)
(* `/` on two ints gives the float nearest to the quotient, `* 100` the    *)
(* float nearest to the product, int() cuts the fraction off.  A float is  *)
(* modelled as [bits, exp]: the number whose binary digits are `bits`      *)
(* (most significant first, at most MantissaBits of them) times 2^exp.     *)
(***************************************************************************)
RECURSIVE Pow2(_)
Pow2(k) == IF k = 0 THEN 1 ELSE 2 * Pow2(k - 1)

RECURSIVE Pow2Mod(_, _)
Pow2Mod(k, d) == IF k = 0 THEN 1 % d ELSE (2 * Pow2Mod(k - 1, d)) % d

\* the least k with n * 2^k >= d, for 1 <= n <= d
RECURSIVE Shift(_, _)
Shift(n, d) == IF n >= d THEN 0 ELSE 1 + Shift(2 * n, d)

\* long division of r / d (0 <= r < d): what is left after k binary digits,
\* and the first k digits
DivRem(r, d, k) == (r * Pow2Mod(k, d)) % d

DivBits(r, d, k) ==
    [i \in 1..k |-> IF 2 * DivRem(r, d, i - 1) >= d THEN 1 ELSE 0]

\* bits + 1
Inc(bits) ==
    LET zeros == {i \in 1..Len(bits) : bits[i] = 0}
    IN  IF zeros = {} THEN <<1>> \o bits
        ELSE LET p == CHOOSE i \in zeros : \A j \in zeros : j <= i
             IN  [i \in 1..Len(bits) |->
                     IF i < p THEN bits[i] ELSE IF i = p THEN 1 ELSE 0]

RECURSIVE ToBits(_)
ToBits(n) == IF n = 0 THEN <<>> ELSE ToBits(n \div 2) \o <<n % 2>>

RECURSIVE FromBits(_)
FromBits(bits) ==
    IF bits = <<>> THEN 0
    ELSE 2 * FromBits(SubSeq(bits, 1, Len(bits) - 1)) + bits[Len(bits)]

\* bits * c, exactly (carry[i] is the carry out of the i lowest digits)
MulBits(bits, c) ==
    LET n == Len(bits)
        carry[i \in 0..n] ==
            IF i = 0 THEN 0 ELSE (bits[n - i + 1] * c + carry[i - 1]) \div 2
    IN  ToBits(carry[n]) \o [i \in 1..n |-> (bits[i] * c + carry[n - i]) % 2]

\* round to nearest, ties to even: keep MantissaBits digits of an exact
\* value bits * 2^exp (bits without leading zeros); `more` says that digits
\* beyond `bits` are not all zero
RoundFloat(bits, exp, more) ==
    IF Len(bits) <= MantissaBits THEN [bits |-> bits, exp |-> exp]
    ELSE LET kept == SubSeq(bits, 1, MantissaBits)
             tail == SubSeq(bits, MantissaBits + 1, Len(bits))
             above == more \/ \E i \in 2..Len(tail) : tail[i] = 1
             up == tail[1] = 1 /\ (above \/ kept[MantissaBits] = 1)
             r == IF up THEN Inc(kept) ELSE kept
         IN  IF Len(r) > MantissaBits
             THEN [bits |-> SubSeq(r, 1, MantissaBits),
                   exp |-> exp + Len(tail) + 1]
             ELSE [bits |-> r, exp |-> exp + Len(tail)]

\* n / d for ints 1 <= n <= d: MantissaBits + 1 digits of the quotient and a
\* sticky remainder, rounded
FloatDiv(n, d) ==
    LET k == Shift(n, d)
        r0 == n * Pow2(k) - d
        digits == <<1>> \o DivBits(r0, d, MantissaBits)
        rest == DivRem(r0, d, MantissaBits)
    IN  RoundFloat(digits, 0 - k - MantissaBits, rest # 0)

\* x * c for a float x and a small int c
FloatMul(x, c) == RoundFloat(MulBits(x.bits, c), x.exp, FALSE)

\* int(x) for a float x >= 0
Trunc(x) ==
    IF x.exp >= 0 THEN FromBits(x.bits) * Pow2(x.exp)
    ELSE IF Len(x.bits) + x.exp <= 0 THEN 0
    ELSE FromBits(SubSeq(x.bits, 1, Len(x.bits) + x.exp))

\* line 145, for part_num > 0 and 0 <= uploaded_parts < part_num
Loss(part_num, uploaded_parts) ==
    Trunc(FloatMul(FloatDiv(part_num - uploaded_parts, part_num), Percent))

LossInit ==
    \E s \in 1..MaxSubmitted : \E a \in 0..(s - 1) :
        lossv = [stage |-> "args", part_num |-> s, uploaded_parts |-> a, loss |-> 0]

LossIdle ==
    lossv = [stage |-> "unused", part_num |-> 0, uploaded_parts |-> 0, loss |-> 0]

ComputeLoss ==
    /\ lossv.stage = "args"
    /\ lossv' = [lossv EXCEPT !.stage = "reported",
                              !.loss = Loss(lossv.part_num, lossv.uploaded_parts)]

(***************************************************************************)
(* Local connector: local.py, LocalConnector.copy / move / remove (lines   *)
(* 22-48); asyncio/local.py lines 36-62 carry the same statements with     *)
(* awaits.  The file system has the two paths of the call, src and dst     *)
(* (remove has only src); a node is absent, a file, a directory (data      *)
(* stands for all that is in it) or something else (a socket, a device).   *)
(***************************************************************************)
NodeAbsent == [kind |-> "absent", data |-> 0]
NodeOther == [kind |-> "other", data |-> 0]
NodeFile(d) == [kind |-> "file", data |-> d]
NodeDir(d) == [kind |-> "dir", data |-> d]

SrcNodes == {NodeAbsent, NodeOther} \cup {NodeFile(d) : d \in 1..MaxData}
                \cup {NodeDir(d) : d \in 1..MaxData}
DstNodes == {NodeAbsent} \cup {NodeFile(d) : d \in 1..MaxData}

\* os.path.exists, os.path.isdir, os.path.isfile
exists(n) == n.kind # "absent"
isdir(n) == n.kind = "dir"
isfile(n) == n.kind = "file"

\* the outcome of a call: the file system it leaves and what it raised
Outcome(fs, exc) == [fs |-> fs, raised |-> exc]

\* shutil.copyfile: dst becomes a copy of the file, replacing a file there
copyfile(fs) == Outcome([fs EXCEPT !.dst = fs.src], "none")

\* shutil.copytree: dst must not exist
copytree(fs) ==
    IF exists(fs.dst) THEN Outcome(fs, "FileExistsError")
    ELSE Outcome([fs EXCEPT !.dst = fs.src], "none")

\* os.rename (POSIX): a file replaces a file; a directory cannot replace a file
rename(fs) ==
    IF isdir(fs.src) /\ isfile(fs.dst) THEN Outcome(fs, "NotADirectoryError")
    ELSE Outcome([src |-> NodeAbsent, dst |-> fs.src], "none")

\* shutil.rmtree and os.remove
rmtree(fs) == Outcome([fs EXCEPT !.src = NodeAbsent], "none")
osremove(fs) == Outcome([fs EXCEPT !.src = NodeAbsent], "none")

\* `os.path.isdir(src_path) and recursive`, lines 25, 35 and 43
isdirAnyMode(n, recursive) == isdir(n)

isdirAndRecursive(n, recursive) == isdir(n) /\ recursive

\* lines 22-30
copy(fs, recursive) ==
    IF ~exists(fs.src) THEN Outcome(fs, "FileNotFoundError")
    ELSE IF isdirAndRecursive(fs.src, recursive) THEN copytree(fs)
    ELSE IF isfile(fs.src) THEN copyfile(fs)
    ELSE Outcome(fs, "ValueError")

\* lines 32-38
move(fs, recursive) ==
    IF ~exists(fs.src) THEN Outcome(fs, "FileNotFoundError")
    ELSE IF isdirAndRecursive(fs.src, recursive) \/ isfile(fs.src) THEN rename(fs)
    ELSE Outcome(fs, "ValueError")

\* lines 40-48
remove(fs, recursive) ==
    IF ~exists(fs.src) THEN Outcome(fs, "FileNotFoundError")
    ELSE IF isdirAndRecursive(fs.src, recursive) THEN rmtree(fs)
    ELSE IF isfile(fs.src) THEN osremove(fs)
    ELSE Outcome(fs, "ValueError")

\* (fs0 is a history field: the file system when the call was made)
LocalInit ==
    \E s \in SrcNodes, d \in DstNodes, r \in BOOLEAN :
        lc = [stage |-> "args", op |-> "none", recursive |-> r,
              fs0 |-> [src |-> s, dst |-> d], fs |-> [src |-> s, dst |-> d],
              raised |-> "none"]

LocalIdle ==
    lc = [stage |-> "unused", op |-> "none", recursive |-> FALSE,
          fs0 |-> [src |-> NodeAbsent, dst |-> NodeAbsent],
          fs |-> [src |-> NodeAbsent, dst |-> NodeAbsent], raised |-> "none"]

LocalCall(op, out) ==
    /\ lc.stage = "args"
    /\ lc' = [lc EXCEPT !.stage = "done", !.op = op, !.fs = out.fs,
                        !.raised = out.raised]
    /\ UNCHANGED <<plan, lossv, rt, pp, s3, writerVars, engineVars>>

LocalCopy == LocalCall("copy", copy(lc.fs, lc.recursive))
LocalMove == LocalCall("move", move(lc.fs, lc.recursive))
LocalRemove == LocalCall("remove", remove(lc.fs, lc.recursive))

(***************************************************************************)
(* Destination path: cli.py lines 147, 173 and 230,                        *)
(*     destination_path = file.path.replace(local_path, s3_path, 1)        *)
(* A str is the sequence of its characters.                                *)
(***************************************************************************)
PathChars == {"a", "/"}

Strs(chars, n) == UNION {[1..k -> chars] : k \in 0..n}

\* the positions at which `old` occurs in s (str.find semantics: the empty
\* string occurs at every position)
Occurs(s, old) ==
    {i \in 1..(Len(s) - Len(old) + 1) : SubSeq(s, i, i + Len(old) - 1) = old}

ReplaceAt(s, old, new, i) ==
    SubSeq(s, 1, i - 1) \o new \o SubSeq(s, i + Len(old), Len(s))

\* s.replace(old, new, 1): the leftmost occurrence is replaced, s is
\* returned as it is when there is none
replaceLast(s, old, new) ==
    IF Occurs(s, old) = {} THEN s
    ELSE ReplaceAt(s, old, new, CHOOSE i \in Occurs(s, old) : \A j \in Occurs(s, old) : j <= i)

replace(s, old, new) ==
    IF Occurs(s, old) = {} THEN s
    ELSE ReplaceAt(s, old, new, CHOOSE i \in Occurs(s, old) : \A j \in Occurs(s, old) : i <= j)

\* (suffix is a history field: file.path is from_root + suffix, as scandir
\* builds it from the root it was given)
RetargetInit ==
    \E f \in Strs(PathChars, MaxPathLen), t \in Strs(PathChars, MaxPathLen),
       x \in Strs(PathChars, MaxPathLen) :
        rt = [stage |-> "args", from_root |-> f, to_root |-> t, suffix |-> x,
              path |-> f \o x, destination_path |-> <<>>]

RetargetIdle ==
    rt = [stage |-> "unused", from_root |-> <<>>, to_root |-> <<>>, suffix |-> <<>>,
          path |-> <<>>, destination_path |-> <<>>]

Retarget ==
    /\ rt.stage = "args"
    /\ rt' = [rt EXCEPT !.stage = "done",
                        !.destination_path = replace(rt.path, rt.from_root, rt.to_root)]
    /\ UNCHANGED <<plan, lossv, lc, pp, s3, writerVars, engineVars>>

(***************************************************************************)
(* Path normalisation: cli.py, CLI._prepare_paths (lines 326-332), and     *)
(* s3utils.py, S3Util._prepare_paths (lines 104-111).                      *)
(***************************************************************************)
RemoteChars == {"s", "3", ":", "/"}
LocalChars == {"d", "/", "\\"}
Platforms == {"Windows", "Linux"}

SchemeSep == <<":", "/", "/">>
SchemePrefix == <<"s", "3", ":", "/", "/">>

\* s.split(sep)[-1]: the text after the last separator split() finds,
\* scanning from the left
RECURSIVE splitLast(_, _)
splitLast(s, sep) ==
    IF Occurs(s, sep) = {} THEN s
    ELSE LET i == CHOOSE k \in Occurs(s, sep) : \A j \in Occurs(s, sep) : k <= j
         IN  splitLast(SubSeq(s, i + Len(sep), Len(s)), sep)

\* s.rstrip(ch)
RECURSIVE rstrip(_, _)
rstrip(s, ch) ==
    IF s # <<>> /\ s[Len(s)] = ch THEN rstrip(SubSeq(s, 1, Len(s) - 1), ch) ELSE s

\* re.sub(r'\\+', '/', s): every maximal run of backslashes becomes one '/'
RECURSIVE subBackslashes(_)
subBackslashes(s) ==
    IF s = <<>> THEN <<>>
    ELSE IF s[1] # "\\" THEN <<s[1]>> \o subBackslashes(SubSeq(s, 2, Len(s)))
    ELSE IF Len(s) >= 2 /\ s[2] = "\\" THEN subBackslashes(SubSeq(s, 2, Len(s)))
    ELSE <<"/">> \o subBackslashes(SubSeq(s, 2, Len(s)))

startswith(s, prefix) ==
    Len(s) >= Len(prefix) /\ SubSeq(s, 1, Len(prefix)) = prefix

\* CLI._prepare_paths, cli.py lines 328-332: returns (s3_path, local_path)
prepare_paths(platform, s3_path, local_path) ==
    LET lp == IF platform = "Windows" THEN subBackslashes(local_path) ELSE local_path
    IN  <<rstrip(splitLast(s3_path, SchemeSep), "/"), rstrip(lp, "/")>>

\* S3Util._prepare_paths, s3utils.py lines 105-111
S3Util_prepare_paths(platform, s3_path, local_path) ==
    LET sp == IF startswith(s3_path, SchemePrefix) THEN s3_path
              ELSE SchemePrefix \o s3_path
        lp == IF platform = "Windows" THEN subBackslashes(local_path) ELSE local_path
    IN  <<rstrip(sp, "/"), rstrip(lp, "/")>>

PathsInit ==
    \E pf \in Platforms, sp \in Strs(RemoteChars, MaxRemoteLen),
       lp \in Strs(LocalChars, MaxLocalLen) :
        pp = [stage |-> "args", impl |-> "none", platform |-> pf,
              s3_path |-> sp, local_path |-> lp, once |-> <<>>, twice |-> <<>>]

PathsIdle ==
    pp = [stage |-> "unused", impl |-> "none", platform |-> "Linux",
          s3_path |-> <<>>, local_path |-> <<>>, once |-> <<>>, twice |-> <<>>]

\* the function applied to the arguments, and again to what it returned
CliPreparePaths ==
    /\ pp.stage = "args"
    /\ LET r == prepare_paths(pp.platform, pp.s3_path, pp.local_path)
       IN  pp' = [pp EXCEPT !.stage = "done", !.impl = "CLI", !.once = r,
                           !.twice = prepare_paths(pp.platform, r[1], r[2])]
    /\ UNCHANGED <<plan, lossv, lc, rt, s3, writerVars, engineVars>>

S3UtilPreparePaths ==
    /\ pp.stage = "args"
    /\ LET r == S3Util_prepare_paths(pp.platform, pp.s3_path, pp.local_path)
       IN  pp' = [pp EXCEPT !.stage = "done", !.impl = "S3Util", !.once = r,
                           !.twice = S3Util_prepare_paths(pp.platform, r[1], r[2])]
    /\ UNCHANGED <<plan, lossv, lc, rt, s3, writerVars, engineVars>>

(***************************************************************************)
(* S3 connector: asyncio/s3.py, AsyncS3Connector.copy / move / remove      *)
(* (lines 116-145) with recursive=True; s3.py lines 95-127 carry the same  *)
(* statements without the awaits.  One bucket; an object is its key and    *)
(* its content, and the content of an object present at the call is named  *)
(* by the key it had then.  src_key and dst_key are the keys of the two    *)
(* directories as lines 118-121 make them: they end with one '/'.          *)
(***************************************************************************)
KeyChars == {"a", "/"}
Slash == <<"/">>

\* a path of non-empty names separated by '/'
IsRelPath(r) ==
    /\ r # <<>>
    /\ r[1] # "/"
    /\ r[Len(r)] # "/"
    /\ \A i \in 1..(Len(r) - 1) : ~(r[i] = "/" /\ r[i + 1] = "/")

RelPaths == {r \in Strs(KeyChars, MaxKeyLen) : IsRelPath(r)}

\* the key another client gives the object it adds to the source directory
NewName == <<"n">>

Object(key, data) == [Key |-> key, Data |-> data]

Keys(objects) == {o.Key : o \in objects}
DataOf(objects, key) == (CHOOSE o \in objects : o.Key = key).Data

\* put_object / copy onto a key: the object of that key is replaced
Put(objects, key, data) ==
    {o \in objects : o.Key # key} \cup {Object(key, data)}

\* the order of a listing: keys ascending by their bytes
CharCode(c) == IF c = "/" THEN 47 ELSE IF c = "a" THEN 97 ELSE 110

RECURSIVE LexLeq(_, _)
LexLeq(a, b) ==
    IF a = <<>> THEN TRUE
    ELSE IF b = <<>> THEN FALSE
    ELSE IF a[1] = b[1] THEN LexLeq(Tail(a), Tail(b))
    ELSE CharCode(a[1]) < CharCode(b[1])

RECURSIVE SortKeys(_)
SortKeys(S) ==
    IF S = {} THEN <<>>
    ELSE LET m == CHOOSE k \in S : \A j \in S : LexLeq(k, j)
         IN  <<m>> \o SortKeys(S \ {m})

\* listdir(path, recursive=True), lines 147-153 and scandir lines 156-172:
\* the keys with the prefix whose last name is not empty
listdir(objects, prefix) ==
    SortKeys({k \in Keys(objects) : startswith(k, prefix) /\ k[Len(k)] # "/"})

\* s.replace(old, new) for a non-empty old: every occurrence, found from
\* the left without overlap, is replaced
RECURSIVE replaceAll(_, _, _)
replaceAll(s, old, new) ==
    IF Len(s) < Len(old) THEN s
    ELSE IF startswith(s, old)
         THEN new \o replaceAll(SubSeq(s, Len(old) + 1, Len(s)), old, new)
    ELSE <<s[1]>> \o replaceAll(Tail(s), old, new)

\* (listed is a history field: the objects the listing of copy returned;
\* deleted is a history field: the objects remove has deleted; raised names
\* the call whose exception left the method)
S3Init ==
    \E src \in RelPaths, dst \in RelPaths :
        /\ src # dst
        /\ \E sufs \in SUBSET RelPaths :
            /\ sufs # {}
            /\ Cardinality(sufs) <= MaxObjects
            /\ s3 = [stage |-> "args", op |-> "none",
                     src_key |-> src \o Slash, dst_key |-> dst \o Slash,
                     objects |-> {Object(src \o Slash \o x, src \o Slash \o x) : x \in sufs},
                     paths |-> <<>>, listed |-> {}, deleted |-> {}, puts |-> 0,
                     raised |-> "none"]

S3Idle ==
    s3 = [stage |-> "unused", op |-> "none", src_key |-> <<>>, dst_key |-> <<>>,
          objects |-> {}, paths |-> <<>>, listed |-> {}, deleted |-> {}, puts |-> 0,
          raised |-> "none"]

S3Unchanged == UNCHANGED <<plan, lossv, lc, rt, pp, writerVars, engineVars>>

\* copy(), lines 117-122: the listing of the source directory
S3Call(op) ==
    /\ s3.stage = "args"
    /\ s3' = [s3 EXCEPT !.stage = "copy", !.op = op,
                        !.paths = listdir(s3.objects, s3.src_key),
                        !.listed = {o \in s3.objects :
                                       \E i \in 1..Len(listdir(s3.objects, s3.src_key)) :
                                           listdir(s3.objects, s3.src_key)[i] = o.Key}]
    /\ S3Unchanged

S3CopyCall == S3Call("copy")

\* move(), line 133
S3MoveCall == S3Call("move")

\* lines 123-126: client.copy of the next listed key returns
S3CopyObject ==
    /\ s3.stage = "copy"
    /\ s3.paths # <<>>
    /\ LET path_key == Head(s3.paths)
       IN  /\ path_key \in Keys(s3.objects)
           /\ s3' = [s3 EXCEPT
                  !.objects = Put(@, replaceAll(path_key, s3.src_key, s3.dst_key),
                                  DataOf(s3.objects, path_key)),
                  !.paths = Tail(@)]
    /\ S3Unchanged

\* lines 125-126: client.copy raises, and the exception leaves copy (and move)
S3CopyObjectFail ==
    /\ s3.stage = "copy"
    /\ s3.paths # <<>>
    /\ s3' = [s3 EXCEPT !.stage = "raised", !.raised = "copy"]
    /\ S3Unchanged

\* the end of the loop of copy: copy returns; move goes on to remove (line
\* 134), which lists the source directory again (lines 138-139)
S3CopyReturn ==
    /\ s3.stage = "copy"
    /\ s3.paths = <<>>
    /\ s3' = IF s3.op = "move"
             THEN [s3 EXCEPT !.stage = "remove",
                             !.paths = listdir(s3.objects, s3.src_key)]
             ELSE [s3 EXCEPT !.stage = "returned"]
    /\ S3Unchanged

\* lines 140-142: delete_object of the next listed key returns
S3DeleteObject ==
    /\ s3.stage = "remove"
    /\ s3.paths # <<>>
    /\ LET path_key == Head(s3.paths)
       IN  s3' = [s3 EXCEPT
                  !.objects = {o \in @ : o.Key # path_key},
                  !.deleted = @ \cup {o \in s3.objects : o.Key = path_key},
                  !.paths = Tail(@)]
    /\ S3Unchanged

\* line 142: delete_object raises
S3DeleteObjectFail ==
    /\ s3.stage = "remove"
    /\ s3.paths # <<>>
    /\ s3' = [s3 EXCEPT !.stage = "raised", !.raised = "delete"]
    /\ S3Unchanged

\* the end of the loop of remove: move returns
S3RemoveReturn ==
    /\ s3.stage = "remove"
    /\ s3.paths = <<>>
    /\ s3' = [s3 EXCEPT !.stage = "returned"]
    /\ S3Unchanged

\* another client of the bucket puts an object into the source directory
\* while copy is at work
S3OtherClientPut ==
    /\ s3.stage = "copy"
    /\ s3.puts < MaxPuts
    /\ s3.src_key \o NewName \notin Keys(s3.objects)
    /\ s3' = [s3 EXCEPT !.objects = Put(@, s3.src_key \o NewName, s3.src_key \o NewName),
                        !.puts = @ + 1]
    /\ S3Unchanged

(***************************************************************************)
(* Multipart writer: utils/s3.py, AsyncMultipartWriter (lines 107-173).    *)
(* MultipartWriter (lines 23-89) and utils/multipart.py carry the same     *)
(* statements without the awaits.                                          *)
(***************************************************************************)

\* __init__, lines 119-121
\* (submitted is a history field: the part numbers in the order write() took them)
\* (listed keeps len(uploaded_parts), a local of __aexit__, -1 before the close)
\* (calls is a history field: the part_num argument of every write() call made)
NewWriter == [entered |-> FALSE, closed |-> FALSE, upload_id |-> 0,
              part_num |-> 0, part_info |-> <<>>, submitted |-> <<>>, listed |-> -1,
              calls |-> <<>>]

\* the backend's record of one multipart upload
\* (Completes and Aborts count the complete_multipart_upload and
\* abort_multipart_upload calls it has received for that id)
NewUpload(key) == [Key |-> key, Parts |-> {}, Completes |-> 0, Aborts |-> 0,
                   Manifest |-> <<>>]

\* sorted(parts, key=lambda x: x['PartNumber']): stable, ascending
InsertSorted(t, r) ==
    LET k == Cardinality({i \in 1..Len(t) : t[i].PartNumber <= r.PartNumber})
    IN  SubSeq(t, 1, k) \o <<r>> \o SubSeq(t, k + 1, Len(t))

sortedUnsorted(s) == s

RECURSIVE sorted(_)
sorted(s) ==
    IF s = <<>> THEN <<>>
    ELSE InsertSorted(sorted(SubSeq(s, 1, Len(s) - 1)), s[Len(s)])

\* lines 158-163: the part number a write() call submits, <<>> when it raises.
\* The argument is <<>> for an omitted part_num and <<p>> for part_num=p.
WritePartNumberFromZero(wr, arg) ==
    IF arg = <<>> THEN <<wr.part_num>>
    ELSE IF 1 <= arg[1] /\ arg[1] <= MaxPartNumber THEN arg
    ELSE <<>>

WritePartNumberLax(wr, arg) ==
    IF arg = <<>> THEN <<wr.part_num + 1>>
    ELSE IF 0 <= arg[1] /\ arg[1] <= MaxPartNumber + 1 THEN arg
    ELSE <<>>

WritePartNumber(wr, arg) ==
    IF arg = <<>> THEN <<wr.part_num + 1>>
    ELSE IF 1 <= arg[1] /\ arg[1] <= MaxPartNumber THEN arg
    ELSE <<>>

\* __aexit__, line 135: finalize exactly when the listing has _part_num parts
CloseFinalizesAlways(listed, part_num) == TRUE

CloseFinalizes(listed, part_num) == listed = part_num

\* AsyncS3Connector.open(path, 'wb', multipart=True), asyncio/s3.py line 104,
\* followed by __aenter__: every call constructs a new writer object (prev is
\* the writer of the attempt before), which is then given the new upload id
OpenWriterReused(prev, id) ==
    [prev EXCEPT !.entered = TRUE, !.closed = FALSE, !.upload_id = id, !.listed = -1]

OpenWriter(prev, id) == [NewWriter EXCEPT !.entered = TRUE, !.upload_id = id]

\* __aenter__, lines 124-126: create_multipart_upload hands out a new id
WriterEnterOn(key) ==
    /\ ~w.entered
    /\ uploads' = Append(uploads, NewUpload(key))
    /\ w' = [w EXCEPT !.entered = TRUE, !.upload_id = Len(uploads) + 1]
    /\ raised' = "none"
    /\ UNCHANGED inflight

\* write(), lines 158-167, up to the await of upload_part
WriterWriteCall(arg) ==
    LET pn == WritePartNumber(w, arg)
    IN  IF pn = <<>>
        THEN /\ raised' = "ValueError"
             /\ w' = [w EXCEPT !.calls = Append(@, arg)]
             /\ UNCHANGED <<uploads, inflight>>
        ELSE /\ w' = [w EXCEPT !.part_num = w.part_num + 1,
                                !.submitted = Append(@, pn[1]),
                                !.calls = Append(@, arg)]
             /\ inflight' = inflight \cup
                    {[id |-> w.part_num + 1, PartNumber |-> pn[1]]}
             /\ raised' = "none"
             /\ UNCHANGED uploads

\* write(), lines 166-173: upload_part returns or raises.
\*   "ok"    the part is stored and its tag is recorded
\*   "fail"  the call raises and nothing is stored
\*   "lost"  the part is stored but the call raises (the response is lost)
UploadOutcomes == {"ok", "fail", "lost"}

\* lines 168-173: the record appended for the call x once upload_part has
\* returned (x.id is the position of the call, x.PartNumber the number it sent)
PartRecordByCallOrder(x) == [PartNumber |-> x.id, ETag |-> x.PartNumber]

PartRecord(x) == [PartNumber |-> x.PartNumber, ETag |-> x.PartNumber]

WriterUploadPartDone(x, outcome) ==
    /\ x \in inflight
    /\ inflight' = inflight \ {x}
    /\ uploads' = IF outcome \in {"ok", "lost"}
                  THEN [uploads EXCEPT ![w.upload_id].Parts = @ \cup {x.PartNumber}]
                  ELSE uploads
    /\ w' = IF outcome = "ok"
            THEN [w EXCEPT !.part_info = Append(@, PartRecord(x))]
            ELSE w
    /\ raised' = IF outcome = "ok" THEN "none" ELSE "ClientError"

\* __aexit__, lines 129-152.  list_parts, complete_multipart_upload and
\* abort_multipart_upload are taken to return.  The backend assembles the
\* object from the manifest on complete and frees the parts on abort; either
\* way the upload id has no parts afterwards.
WriterExitNow ==
    LET listed == Cardinality(uploads[w.upload_id].Parts)
    IN  /\ w.entered /\ ~w.closed
        /\ IF CloseFinalizes(listed, w.part_num)
           THEN /\ w' = [w EXCEPT !.closed = TRUE, !.listed = listed,
                                   !.part_info = sorted(w.part_info)]
                /\ uploads' = [uploads EXCEPT ![w.upload_id].Completes = @ + 1,
                                              ![w.upload_id].Parts = {},
                                              ![w.upload_id].Manifest = sorted(w.part_info)]
                /\ raised' = "none"
           ELSE /\ w' = [w EXCEPT !.closed = TRUE, !.listed = listed]
                /\ uploads' = [uploads EXCEPT ![w.upload_id].Aborts = @ + 1,
                                              ![w.upload_id].Parts = {}]
                /\ raised' = "RuntimeError"
        /\ UNCHANGED inflight

(***************************************************************************)
(* The variables of the engine while no call is running.                   *)
(***************************************************************************)
\* (dst is the content of the destination file of a download job, each byte
\* named by its position in the source)
NoJob == [st |-> "none", phase |-> "none", retries |-> 0, pos |-> 0,
          result |-> "none", log |-> <<>>, dst |-> <<>>]

\* (bytes0 is a history field: bytes_pbar.n when the running attempt opened
\* its session)
NoMultipart == [file |-> 0, part |-> 0, chunk_size |-> 0, chunks_number |-> 0,
                exc |-> FALSE, bytes0 |-> 0]

EngineIdle ==
    /\ cfg = [op |-> "none"]
    /\ files = <<>>
    /\ small_files = <<>>
    /\ large_files = <<>>
    /\ pc = "idle"
    /\ idx = 0
    /\ active = {}
    /\ job = <<>>
    /\ mp = NoMultipart
    /\ error_files = <<>>
    /\ files_n = 0
    /\ bytes_n = 0

(***************************************************************************)
(* SpecWriter: one session, MaxWrites write() calls from concurrent        *)
(* callers, each with an omitted or a caller-supplied part number; the     *)
(* with-block is left once every call has returned or raised.              *)
(***************************************************************************)
PartNumArgs ==
    {<<>>} \cup {<<p>> : p \in (0..MaxSmallPart) \cup {MaxPartNumber, MaxPartNumber + 1}}

WriterIdle ==
    /\ w = NewWriter
    /\ uploads = <<>>
    /\ inflight = {}
    /\ raised = "none"

WriterInit == WriterIdle /\ PlanIdle /\ LossIdle /\ LocalIdle /\ EngineIdle /\ RetargetIdle /\ PathsIdle /\ S3Idle

WriterEnter == WriterEnterOn(1) /\ UNCHANGED <<pureVars, engineVars>>

WriterWrite ==
    /\ w.entered /\ ~w.closed
    /\ Len(w.calls) < MaxWrites
    /\ \E arg \in PartNumArgs : WriterWriteCall(arg)
    /\ UNCHANGED <<pureVars, engineVars>>

WriterUploadPart ==
    /\ \E x \in inflight, outcome \in UploadOutcomes : WriterUploadPartDone(x, outcome)
    /\ UNCHANGED <<pureVars, engineVars>>

WriterExit ==
    /\ inflight = {}
    /\ WriterExitNow
    /\ UNCHANGED <<pureVars, engineVars>>

WriterNext == WriterEnter \/ WriterWrite \/ WriterUploadPart \/ WriterExit

SpecWriter == WriterInit /\ [][WriterNext]_vars

(***************************************************************************)
(* SpecPlan                                                                *)
(***************************************************************************)
PlanNext == ComputePlan

InitPlan == PlanInit /\ LossIdle /\ LocalIdle /\ WriterIdle /\ EngineIdle /\ RetargetIdle /\ PathsIdle /\ S3Idle

SpecPlan == InitPlan /\ [][PlanNext]_vars

(***************************************************************************)
(* SpecLoss                                                                *)
(***************************************************************************)
LossStep == ComputeLoss /\ UNCHANGED <<plan, lc, rt, pp, s3, writerVars, engineVars>>

InitLoss == LossInit /\ PlanIdle /\ LocalIdle /\ WriterIdle /\ EngineIdle /\ RetargetIdle /\ PathsIdle /\ S3Idle

SpecLoss == InitLoss /\ [][LossStep]_vars

(***************************************************************************)
(* SpecLocal                                                               *)
(***************************************************************************)
LocalNext == LocalCopy \/ LocalMove \/ LocalRemove

InitLocal == LocalInit /\ PlanIdle /\ LossIdle /\ WriterIdle /\ EngineIdle /\ RetargetIdle /\ PathsIdle /\ S3Idle

SpecLocal == InitLocal /\ [][LocalNext]_vars

(***************************************************************************)
(* SpecRetarget                                                            *)
(***************************************************************************)
RetargetNext == Retarget

InitRetarget ==
    /\ RetargetInit /\ PlanIdle /\ LossIdle /\ LocalIdle /\ PathsIdle /\ S3Idle
    /\ WriterIdle /\ EngineIdle

SpecRetarget == InitRetarget /\ [][RetargetNext]_vars

(***************************************************************************)
(* SpecPaths                                                               *)
(***************************************************************************)
PathsNext == CliPreparePaths \/ S3UtilPreparePaths

InitPaths ==
    /\ PathsInit /\ PlanIdle /\ LossIdle /\ LocalIdle /\ RetargetIdle /\ S3Idle
    /\ WriterIdle /\ EngineIdle

SpecPaths == InitPaths /\ [][PathsNext]_vars

(***************************************************************************)
(* SpecS3                                                                  *)
(***************************************************************************)
S3Next ==
    \/ S3CopyCall
    \/ S3MoveCall
    \/ S3CopyObject
    \/ S3CopyObjectFail
    \/ S3CopyReturn
    \/ S3DeleteObject
    \/ S3DeleteObjectFail
    \/ S3RemoveReturn
    \/ S3OtherClientPut

InitS3 ==
    /\ S3Init /\ PlanIdle /\ LossIdle /\ LocalIdle /\ RetargetIdle /\ PathsIdle
    /\ WriterIdle /\ EngineIdle

SpecS3 == InitS3 /\ [][S3Next]_vars

(***************************************************************************)
(* Transfer engine: cli.py, class CLI.  One upload() or download() call.   *)
(*                                                                         *)
(* A file is named by its index in the scan result (paths are distinct).   *)
(* Every backend or disk call of a job may return or raise; the sleep of   *)
(* the retry loop is part of the step that catches the exception.          *)
(***************************************************************************)
MaxEntries == 3        \* entries in the scan result
MaxSize == 3           \* file sizes 1..MaxSize
MaxWorkers == 2        \* num_workers 1..MaxWorkers
MaxRetries == 2        \* num_retries 0..MaxRetries
MaxChunk == 2          \* chunk_size 1..MaxChunk
LargeFileSize == 1     \* large_file_size of the modelled calls
MinChunksNumber == 2   \* max_chunks_number MinChunksNumber..MinChunksNumber + 1
MaxWork == 6           \* entries scanned plus copy steps the jobs may attempt, per call
MaxLiveWork == 5       \* SpecLive: the same measure for the calls checked for termination

None == -1             \* FSEntry.size of an entry without a size

Dir == [type |-> "dir", size |-> None]
File(s) == [type |-> "file", size |-> s]

\* an object whose listing has no Size (asyncio/s3.py line 170)
FileNoSize == [type |-> "file", size |-> None]

EntryChoices == {Dir, FileNoSize} \cup {File(s) : s \in 1..MaxSize}
Catalogs == UNION {[1..n -> EntryChoices] : n \in 1..MaxEntries}

\* what the source path (local_path of upload, s3_path of download) names:
\* a directory / prefix with its entries, or nothing at all
MissingRoot == [exists |-> FALSE, entries |-> <<>>]
Roots == {[exists |-> TRUE, entries |-> c] : c \in Catalogs} \cup {MissingRoot}

\* scandir(path, recursive=True), asyncio/local.py lines 78-87 and
\* asyncio/s3.py lines 156-172: os.walk skips a top directory it cannot
\* list (onerror is None), and the listing of a prefix without objects has
\* no Contents; both loops then run zero times
scandir(root) == IF root.exists THEN root.entries ELSE <<>>

\* num_workers of the modelled calls: a negative one, zero and 1..MaxWorkers
WorkerCounts == {-1, 0} \cup (1..MaxWorkers)

Configs ==
    {[op |-> "upload", multipart |-> FALSE, num_workers |-> n, num_retries |-> r,
      chunk_size |-> MaxChunk, large_file_size |-> LargeFileSize,
      max_chunks_number |-> MinChunksNumber] :
        n \in WorkerCounts, r \in 0..MaxRetries}
    \cup
    {[op |-> "upload", multipart |-> TRUE, num_workers |-> n, num_retries |-> r,
      chunk_size |-> 1, large_file_size |-> LargeFileSize,
      max_chunks_number |-> m] :
        n \in WorkerCounts, r \in 0..MaxRetries,
        m \in MinChunksNumber..(MinChunksNumber + 1)}
    \cup
    {[op |-> "download", multipart |-> FALSE, num_workers |-> n, num_retries |-> r,
      chunk_size |-> c, large_file_size |-> LargeFileSize,
      max_chunks_number |-> MinChunksNumber] :
        n \in WorkerCounts, r \in 0..MaxRetries, c \in {MaxChunk}}

Paths == 1..Len(files)
AllFiles == [i \in 1..Len(files) |-> i]

\* _split_small_large_files, line 341
IsLargeFileAtThreshold(entry, large_file_size) ==
    entry.size # None /\ entry.size >= large_file_size

IsLargeFile(entry, large_file_size) ==
    entry.size # None /\ entry.size > large_file_size

\* _split_small_large_files, lines 339-345 (both lists keep the scan order)
SplitSmall(large_file_size) ==
    SelectSeq(AllFiles, LAMBDA i : ~IsLargeFile(files[i], large_file_size))

SplitLarge(large_file_size) ==
    SelectSeq(AllFiles, LAMBDA i : IsLargeFile(files[i], large_file_size))

\* `if file.size is not None`, lines 146, 172 and 229
HasSizeAlways(entry) == TRUE

HasSize(entry) == entry.size # None

\* `status = await pool.spawn(coro)`, lines 148 and 174: AioPool.spawn waits
\* for a slot, creates the task and returns the task's future, not the bool
\* the coroutine will return.
SpawnStatusNone == "None"

SpawnStatus == "Future"

\* `if not status`: a future is an object without __bool__ / __len__
TruthyAlways(v) == TRUE

Truthy(v) == v \notin {"False", "None"}

\* AioPool(size=num_workers), lines 144 and 170: the pool makes an
\* asyncio.Semaphore(size), which raises ValueError for a negative value
PoolSizeValidAlways(size) == TRUE

PoolSizeValid(size) == size >= 0

\* AioPool(size=num_workers): spawn acquires the pool's semaphore
PoolHasSlotAlways(size) == TRUE

PoolHasSlot(size) == Cardinality(active) < size

\* `while retries < num_retries`, lines 195, 259, 306
MayRetryInclusive(retries, num_retries) == retries <= num_retries

MayRetry(retries, num_retries) == retries < num_retries

\* src_file.seek((part_number - 1) * chunk_size); src_file.read(chunk_size)
Min(a, b) == IF a < b THEN a ELSE b
Max(a, b) == IF a < b THEN b ELSE a
ChunkLenWhole(size, chunk_size, part_number) == chunk_size

ChunkLen(size, chunk_size, part_number) ==
    Max(0, Min(chunk_size, size - (part_number - 1) * chunk_size))

\* the copy steps of one attempt of the job of an entry: one upload_fileobj,
\* or one read per chunk
JobWork(c, entry) ==
    IF entry.size = None THEN 0
    ELSE IF c.op = "download" THEN CeilDiv(entry.size, c.chunk_size)
    ELSE IF c.multipart /\ IsLargeFile(entry, c.large_file_size)
         THEN ChunkPlan(entry.size, c.chunk_size, c.max_chunks_number).chunks_number
    ELSE 1

RECURSIVE SumWork(_, _)
SumWork(c, fs) ==
    IF fs = <<>> THEN 0
    ELSE JobWork(c, fs[Len(fs)]) + SumWork(c, SubSeq(fs, 1, Len(fs) - 1))

\* the calls of the model: every configuration with every source root, as
\* long as the entries scanned plus the copy steps the jobs can attempt
\* (num_retries attempts each) stay within MaxWork
Scenarios ==
    {sc \in Configs \X Roots :
        Len(scandir(sc[2]))
            + sc[1].num_retries * SumWork(sc[1], scandir(sc[2])) <= MaxWork}

\* `for part_number in range(1, chunks_number + 1)`, line 266
HasNextPartExclusive(part_number, chunks_number) == part_number < chunks_number

HasNextPart(part_number, chunks_number) == part_number <= chunks_number

EngineInit ==
    /\ \E sc \in Scenarios : cfg = sc[1] @@ [root |-> sc[2]]
    /\ files = <<>>
    /\ small_files = <<>>
    /\ large_files = <<>>
    /\ pc = "scan"
    /\ idx = 0
    /\ active = {}
    /\ job = <<>>
    /\ mp = NoMultipart
    /\ error_files = <<>>
    /\ files_n = 0
    /\ bytes_n = 0

\* upload() line 84, download() line 140: the scan of the source root
Scan ==
    /\ pc = "scan"
    /\ files' = scandir(cfg.root)
    /\ job' = [i \in 1..Len(scandir(cfg.root)) |-> NoJob]
    /\ pc' = "start"
    /\ UNCHANGED <<cfg, small_files, large_files, idx, active, mp,
                   error_files, files_n, bytes_n>>
    /\ UNCHANGED <<pureVars, writerVars>>

\* upload() lines 85-89 and 98-100, download() lines 141-145: after the scan.
\* Without multipart (and in download) the pool loop iterates `files` itself.
\* The pool of _upload_files (line 170) or download (line 144) is made next;
\* when that raises, the exception leaves the call.
Start ==
    /\ pc = "start"
    /\ small_files' = IF cfg.op = "upload" /\ cfg.multipart
                      THEN SplitSmall(cfg.large_file_size) ELSE AllFiles
    /\ large_files' = IF cfg.op = "upload" /\ cfg.multipart
                      THEN SplitLarge(cfg.large_file_size) ELSE <<>>
    /\ IF PoolSizeValid(cfg.num_workers)
       THEN pc' = "pool" /\ idx' = 1
       ELSE pc' = "raised" /\ idx' = idx
    /\ UNCHANGED <<cfg, files, active, job, mp, error_files, files_n, bytes_n>>
    /\ UNCHANGED <<pureVars, writerVars>>

(***************************************************************************)
(* _upload_files (lines 169-180) and the pool loop of download (143-154).  *)
(***************************************************************************)

\* one iteration of `for file in files` for an entry with a size
PoolSpawn ==
    /\ pc = "pool"
    /\ idx <= Len(small_files)
    /\ LET f == small_files[idx]
       IN  /\ HasSize(files[f])
           /\ PoolHasSlot(cfg.num_workers)
           /\ active' = active \cup {f}
           /\ job' = [job EXCEPT ![f] =
                  [NoJob EXCEPT !.st = "run",
                                !.phase = IF cfg.op = "download" THEN "mkdir" ELSE "loop"]]
           /\ error_files' = IF ~Truthy(SpawnStatus)
                             THEN Append(error_files, f) ELSE error_files
    /\ idx' = idx + 1
    /\ UNCHANGED <<cfg, files, small_files, large_files, pc, mp, files_n, bytes_n>>
    /\ UNCHANGED <<pureVars, writerVars>>

\* one iteration for an entry whose size is None
PoolSkip ==
    /\ pc = "pool"
    /\ idx <= Len(small_files)
    /\ ~HasSize(files[small_files[idx]])
    /\ idx' = idx + 1
    /\ UNCHANGED <<cfg, files, small_files, large_files, pc, active, job, mp,
                   error_files, files_n, bytes_n>>
    /\ UNCHANGED <<pureVars, writerVars>>

\* AioPool.__aexit__ (lines 170 and 144): `await self.join()`, which returns
\* when the pool has no task left
PoolJoinedAlways(tasks) == TRUE

PoolJoined(tasks) == tasks = {}

\* the end of the pool's with-block; then line 180 / 154 returns, or upload()
\* goes on to _upload_files_multipart (line 94)
PoolJoin ==
    /\ pc = "pool"
    /\ idx > Len(small_files)
    /\ PoolJoined(active)
    /\ IF cfg.op = "upload" /\ cfg.multipart
       THEN pc' = "large" /\ idx' = 1
       ELSE pc' = "returned" /\ idx' = idx
    /\ UNCHANGED <<cfg, files, small_files, large_files, active, job, mp,
                   error_files, files_n, bytes_n>>
    /\ UNCHANGED <<pureVars, writerVars>>

(***************************************************************************)
(* The retry loop shared by _upload_file (194-210), _download_file         *)
(* (304-324) and _upload_file_multipart (258-278).                         *)
(***************************************************************************)

\* `while retries < num_retries: try: retries += 1`
BeginAttempt(f, phase) ==
    /\ job[f].st = "run"
    /\ job[f].phase = "loop"
    /\ MayRetry(job[f].retries, cfg.num_retries)
    /\ job' = [job EXCEPT ![f].retries = @ + 1, ![f].phase = phase, ![f].pos = 0]

\* `except Exception as err: err_msg = err; await asyncio.sleep(delay)`
AttemptFailed(f) ==
    job' = [job EXCEPT ![f].phase = "loop", ![f].log = Append(@, "fail")]

\* the statements after the loop: print(err_msg) raises UnboundLocalError
\* when no attempt has bound err_msg, otherwise both bars are advanced
LoopExhausted(f) ==
    /\ job[f].st = "run"
    /\ job[f].phase = "loop"
    /\ ~MayRetry(job[f].retries, cfg.num_retries)

ExhaustedRaisesAlways(f) == TRUE

ExhaustedRaises(f) == job[f].log = <<>>

(***************************************************************************)
(* Pool tasks: _upload_file and _download_file.  When the coroutine ends   *)
(* (return or exception) AioPool releases its slot and keeps the outcome   *)
(* in the task's future, which nobody reads.                               *)
(***************************************************************************)
PoolAttempt ==
    /\ \E f \in active : BeginAttempt(f, IF cfg.op = "download" THEN "open" ELSE "copy")
    /\ UNCHANGED <<cfg, files, small_files, large_files, pc, idx, active, mp,
                   error_files, files_n, bytes_n>>
    /\ UNCHANGED <<pureVars, writerVars>>

\* _upload_file lines 198-203: upload_fileobj returned
UploadFileOk ==
    /\ cfg.op = "upload"
    /\ \E f \in active :
        /\ job[f].phase = "copy"
        /\ job' = [job EXCEPT ![f].st = "done", ![f].phase = "end",
                              ![f].result = "True", ![f].log = Append(@, "ok")]
        /\ files_n' = files_n + 1
        /\ bytes_n' = bytes_n + files[f].size
        /\ active' = active \ {f}
    /\ UNCHANGED <<cfg, files, small_files, large_files, pc, idx, mp, error_files>>
    /\ UNCHANGED <<pureVars, writerVars>>

\* _upload_file lines 204-206, _download_file lines 318-320: open, read or
\* write raised (in phase "open" of a download nothing has been opened yet)
PoolAttemptFail ==
    /\ \E f \in active :
        /\ job[f].phase \in {"open", "copy"}
        /\ AttemptFailed(f)
    /\ UNCHANGED <<cfg, files, small_files, large_files, pc, idx, active, mp,
                   error_files, files_n, bytes_n>>
    /\ UNCHANGED <<pureVars, writerVars>>

\* lines 207-210 and 321-324
PoolExhausted ==
    /\ \E f \in active :
        /\ LoopExhausted(f)
        /\ IF ExhaustedRaises(f)
           THEN /\ job' = [job EXCEPT ![f].st = "done", ![f].phase = "end",
                                      ![f].result = "UnboundLocalError"]
                /\ UNCHANGED <<files_n, bytes_n>>
           ELSE /\ job' = [job EXCEPT ![f].st = "done", ![f].phase = "end",
                                      ![f].result = "False"]
                /\ files_n' = files_n + 1
                /\ bytes_n' = bytes_n + files[f].size
        /\ active' = active \ {f}
    /\ UNCHANGED <<cfg, files, small_files, large_files, pc, idx, mp, error_files>>
    /\ UNCHANGED <<pureVars, writerVars>>

\* _download_file line 305: mkdir of the destination directory, before the loop
DownloadMkdir ==
    /\ \E f \in active :
        /\ job[f].phase = "mkdir"
        /\ \E ok \in BOOLEAN :
            IF ok
            THEN /\ job' = [job EXCEPT ![f].phase = "loop"]
                 /\ UNCHANGED active
            ELSE /\ job' = [job EXCEPT ![f].st = "done", ![f].phase = "end",
                                       ![f].result = "OSError"]
                 /\ active' = active \ {f}
    /\ UNCHANGED <<cfg, files, small_files, large_files, pc, idx, mp,
                   error_files, files_n, bytes_n>>
    /\ UNCHANGED <<pureVars, writerVars>>

\* the content of the object of an entry: its bytes, named by position
SourceContent(entry) == [i \in 1..entry.size |-> i]

\* the bytes a read of n bytes at offset pos returns
ReadAt(entry, pos, n) == SubSeq(SourceContent(entry), pos + 1, pos + n)

\* local_connection.open(destination_path, 'wb'), line 310: what is left of
\* the content the file had
OpenForAppend(content) == content

OpenForWrite(content) == <<>>

\* _download_file lines 309-310: get_object gives a stream from the first
\* byte on, and the destination is opened for writing
DownloadOpen ==
    /\ cfg.op = "download"
    /\ \E f \in active :
        /\ job[f].phase = "open"
        /\ job' = [job EXCEPT ![f].phase = "copy", ![f].pos = 0,
                              ![f].dst = OpenForWrite(@)]
    /\ UNCHANGED <<cfg, files, small_files, large_files, pc, idx, active, mp,
                   error_files, files_n, bytes_n>>
    /\ UNCHANGED <<pureVars, writerVars>>

\* _download_file lines 311-315: one chunk read, written and counted
DownloadChunk ==
    /\ cfg.op = "download"
    /\ \E f \in active :
        /\ job[f].phase = "copy"
        /\ job[f].pos < files[f].size
        /\ LET n == Min(cfg.chunk_size, files[f].size - job[f].pos)
           IN  /\ job' = [job EXCEPT ![f].pos = @ + n,
                                     ![f].dst = @ \o ReadAt(files[f], job[f].pos, n)]
               /\ bytes_n' = bytes_n + n
    /\ UNCHANGED <<cfg, files, small_files, large_files, pc, idx, active, mp,
                   error_files, files_n>>
    /\ UNCHANGED <<pureVars, writerVars>>

\* _download_file lines 312, 316-317: read returned b'', the loop ends
DownloadFileOk ==
    /\ cfg.op = "download"
    /\ \E f \in active :
        /\ job[f].phase = "copy"
        /\ job[f].pos = files[f].size
        /\ job' = [job EXCEPT ![f].st = "done", ![f].phase = "end",
                              ![f].result = "True", ![f].log = Append(@, "ok")]
        /\ files_n' = files_n + 1
        /\ active' = active \ {f}
    /\ UNCHANGED <<cfg, files, small_files, large_files, pc, idx, mp,
                   error_files, bytes_n>>
    /\ UNCHANGED <<pureVars, writerVars>>

(***************************************************************************)
(* _upload_files_multipart (227-237) and _upload_file_multipart (254-278): *)
(* large files, one after another, in the caller's own coroutine.          *)
(***************************************************************************)

\* lines 228-231 and 254-258: the next large file, its chunk plan (the
\* writer of the previous job is gone with that job's frame)
LargeNext ==
    /\ pc = "large"
    /\ idx <= Len(large_files)
    /\ LET f == large_files[idx]
           p == ChunkPlan(files[f].size, cfg.chunk_size, cfg.max_chunks_number)
       IN  /\ HasSize(files[f])
           /\ job' = [job EXCEPT ![f] = [NoJob EXCEPT !.st = "run", !.phase = "loop"]]
           /\ mp' = [file |-> f, part |-> 0, chunk_size |-> p.chunk_size,
                     chunks_number |-> p.chunks_number, exc |-> FALSE,
                     bytes0 |-> bytes_n]
    /\ pc' = "job"
    /\ w' = NewWriter
    /\ raised' = "none"
    /\ UNCHANGED <<cfg, files, small_files, large_files, idx, active,
                   error_files, files_n, bytes_n, uploads, inflight>>
    /\ UNCHANGED pureVars

\* lines 259-261
MultipartAttempt ==
    /\ pc = "job"
    /\ BeginAttempt(mp.file, "open")
    /\ UNCHANGED <<cfg, files, small_files, large_files, pc, idx, active, mp,
                   error_files, files_n, bytes_n>>
    /\ UNCHANGED <<pureVars, writerVars>>

\* lines 262-264: the source is opened, a new writer is made (s3.py line
\* 104) and entered
MultipartOpen ==
    /\ pc = "job"
    /\ job[mp.file].phase = "open"
    /\ uploads' = Append(uploads, NewUpload(mp.file))
    /\ w' = OpenWriter(w, Len(uploads) + 1)
    /\ raised' = "none"
    /\ job' = [job EXCEPT ![mp.file].phase = "feed"]
    /\ mp' = [mp EXCEPT !.part = 1, !.exc = FALSE, !.bytes0 = bytes_n]
    /\ UNCHANGED <<cfg, files, small_files, large_files, pc, idx, active,
                   error_files, files_n, bytes_n, inflight>>
    /\ UNCHANGED pureVars

\* lines 262-264 raise: the source cannot be opened or
\* create_multipart_upload fails; no session exists
MultipartOpenFail ==
    /\ pc = "job"
    /\ job[mp.file].phase = "open"
    /\ AttemptFailed(mp.file)
    /\ UNCHANGED <<cfg, files, small_files, large_files, pc, idx, active, mp,
                   error_files, files_n, bytes_n>>
    /\ UNCHANGED <<pureVars, writerVars>>

\* AioPool(size=num_workers), line 265: spawn acquires the chunk pool's
\* semaphore, which a task holds until it ends
ChunkPoolHasSlotAlways(size) == TRUE

ChunkPoolHasSlot(size) == Cardinality(inflight) < size

\* lines 266-269: one chunk is read and its _upload_chunk task is spawned in
\* the chunk pool (AioPool(size=num_workers)); the task runs write() up to
\* the await of upload_part
MultipartSpawnChunk ==
    /\ pc = "job"
    /\ job[mp.file].phase = "feed"
    /\ HasNextPart(mp.part, mp.chunks_number)
    /\ ChunkPoolHasSlot(cfg.num_workers)
    /\ WriterWriteCall(<<mp.part>>)
    /\ mp' = [mp EXCEPT !.part = @ + 1]
    /\ UNCHANGED <<cfg, files, small_files, large_files, pc, idx, active, job,
                   error_files, files_n, bytes_n>>
    /\ UNCHANGED pureVars

\* lines 267-268 raise: seek or read of the source fails; the exception
\* leaves the for loop and unwinds the three with-blocks
MultipartReadFail ==
    /\ pc = "job"
    /\ job[mp.file].phase = "feed"
    /\ HasNextPart(mp.part, mp.chunks_number)
    /\ mp' = [mp EXCEPT !.exc = TRUE]
    /\ job' = [job EXCEPT ![mp.file].phase = "unwind"]
    /\ UNCHANGED <<cfg, files, small_files, large_files, pc, idx, active,
                   error_files, files_n, bytes_n>>
    /\ UNCHANGED <<pureVars, writerVars>>

\* _upload_chunk, lines 287-289: write() returns or raises; the byte bar is
\* advanced after a write that returned.  An exception stays in the task's
\* future.
MultipartChunkDone ==
    /\ pc = "job"
    /\ \E x \in inflight, outcome \in UploadOutcomes :
        /\ WriterUploadPartDone(x, outcome)
        /\ bytes_n' = IF outcome = "ok"
                      THEN bytes_n + ChunkLen(files[mp.file].size, mp.chunk_size,
                                              x.PartNumber)
                      ELSE bytes_n
    /\ UNCHANGED <<cfg, files, small_files, large_files, pc, idx, active, job, mp,
                   error_files, files_n>>
    /\ UNCHANGED pureVars

\* AioPool.__aexit__ of the chunk pool (line 265): `await self.join()`,
\* which returns once the pool has no task left, whether or not the body
\* of the with-block raised
ChunkPoolJoinedAlways(tasks) == TRUE

ChunkPoolJoined(tasks) == tasks = {}

\* the end of the with-blocks: the chunk pool joins (every task has ended),
\* then the writer's __aexit__ runs, whether or not the body raised.
\* Lines 270-271 when nothing raised, lines 272-274 otherwise.
MultipartClose ==
    /\ pc = "job"
    /\ \/ job[mp.file].phase = "feed" /\ ~HasNextPart(mp.part, mp.chunks_number)
       \/ job[mp.file].phase = "unwind"
    /\ ChunkPoolJoined(inflight)
    /\ WriterExitNow
    /\ IF ~mp.exc /\ CloseFinalizes(Cardinality(uploads[w.upload_id].Parts), w.part_num)
       THEN /\ job' = [job EXCEPT ![mp.file].st = "done", ![mp.file].phase = "end",
                                  ![mp.file].result = "True",
                                  ![mp.file].log = Append(@, "ok")]
            /\ files_n' = files_n + 1
            /\ pc' = "large"
            /\ idx' = idx + 1
            /\ UNCHANGED error_files
       ELSE /\ AttemptFailed(mp.file)
            /\ UNCHANGED <<files_n, pc, idx, error_files>>
    /\ UNCHANGED <<cfg, files, small_files, large_files, active, mp, bytes_n>>
    /\ UNCHANGED pureVars

\* lines 275-278 and 235-236: the job returns False and its path is
\* appended; with no attempt made print(err_msg) raises out of upload()
MultipartExhausted ==
    /\ pc = "job"
    /\ LoopExhausted(mp.file)
    /\ IF ExhaustedRaises(mp.file)
       THEN /\ job' = [job EXCEPT ![mp.file].st = "done", ![mp.file].phase = "end",
                                  ![mp.file].result = "UnboundLocalError"]
            /\ pc' = "raised"
            /\ UNCHANGED <<idx, error_files, files_n, bytes_n>>
       ELSE /\ job' = [job EXCEPT ![mp.file].st = "done", ![mp.file].phase = "end",
                                  ![mp.file].result = "False"]
            /\ files_n' = files_n + 1
            /\ bytes_n' = bytes_n + files[mp.file].size
            /\ error_files' = IF ~Truthy("False")
                              THEN Append(error_files, mp.file) ELSE error_files
            /\ pc' = "large"
            /\ idx' = idx + 1
    /\ UNCHANGED <<cfg, files, small_files, large_files, active, mp>>
    /\ UNCHANGED <<pureVars, writerVars>>

\* line 237, then upload() line 103
LargeReturn ==
    /\ pc = "large"
    /\ idx > Len(large_files)
    /\ pc' = "returned"
    /\ UNCHANGED <<cfg, files, small_files, large_files, idx, active, job, mp,
                   error_files, files_n, bytes_n>>
    /\ UNCHANGED <<pureVars, writerVars>>

Init == EngineInit /\ WriterIdle /\ PlanIdle /\ LossIdle /\ LocalIdle /\ RetargetIdle /\ PathsIdle /\ S3Idle

Next ==
    \/ Scan
    \/ Start
    \/ PoolSpawn
    \/ PoolSkip
    \/ PoolJoin
    \/ PoolAttempt
    \/ UploadFileOk
    \/ PoolAttemptFail
    \/ PoolExhausted
    \/ DownloadMkdir
    \/ DownloadOpen
    \/ DownloadChunk
    \/ DownloadFileOk
    \/ LargeNext
    \/ MultipartAttempt
    \/ MultipartOpen
    \/ MultipartOpenFail
    \/ MultipartSpawnChunk
    \/ MultipartReadFail
    \/ MultipartChunkDone
    \/ MultipartClose
    \/ MultipartExhausted
    \/ LargeReturn

Spec == Init /\ [][Next]_vars

\* the calls with num_workers >= 1 and num_retries >= 1 (those within
\* MaxLiveWork), where the event loop runs a coroutine that can go on and
\* every backend or disk call returns or raises
InitLive ==
    /\ Init
    /\ cfg.num_workers >= 1
    /\ cfg.num_retries >= 1
    /\ Len(scandir(cfg.root))
           + cfg.num_retries * SumWork(cfg, scandir(cfg.root)) <= MaxLiveWork

SpecLive == InitLive /\ [][Next]_vars /\ WF_vars(Next)

(***************************************************************************)
(* Properties of the chunk plan (SpecPlan).                                *)
(***************************************************************************)

\* C4: for every size s >= 1, chunk size c >= 1 and cap m >= 1 the plan has
\* chunk_count <= m and chunk_count = ceil(s / effective_chunk_size), the
\* effective size being c, or the recomputed one exactly when ceil(s / c) > m.
\* (n = ceil(s / e) is stated as (n - 1) * e < s <= n * e.)
ChunkCountWithinCap ==
    plan.stage = "planned" =>
        /\ plan.chunks_number <= plan.max_chunks_number
        /\ (plan.chunks_number - 1) * plan.chunk_size < plan.file_size
        /\ plan.file_size <= plan.chunks_number * plan.chunk_size
        /\ plan.recomputed <=> plan.file_size > plan.max_chunks_number * plan.chunk_size_arg
        /\ ~plan.recomputed => plan.chunk_size = plan.chunk_size_arg

ChunkCountAtCap ==
    /\ plan.stage = "planned"
    /\ plan.recomputed
    /\ plan.chunks_number = plan.max_chunks_number
    /\ plan.chunks_number >= 2

\* C5 as stated: whenever the naive chunk count exceeds max_chunks, the
\* recomputed chunk size equals ceil(size / max_chunks), also for sizes that
\* are an exact multiple of max_chunks.
RecomputedSizeIsCeil ==
    (plan.stage = "planned" /\ plan.recomputed) =>
        /\ (plan.chunk_size - 1) * plan.max_chunks_number < plan.file_size
        /\ plan.file_size <= plan.chunk_size * plan.max_chunks_number

\* C5 amended: whenever the naive chunk count exceeds max_chunks, the
\* recomputed chunk size equals floor(size / max_chunks) + 1; that is
\* ceil(size / max_chunks) when size is not a multiple of max_chunks and
\* ceil(size / max_chunks) + 1 when it is.
RecomputedSizeIsFloorPlusOne ==
    (plan.stage = "planned" /\ plan.recomputed) =>
        /\ (plan.chunk_size - 1) * plan.max_chunks_number <= plan.file_size
        /\ plan.file_size < plan.chunk_size * plan.max_chunks_number
        /\ plan.file_size % plan.max_chunks_number # 0 =>
               /\ (plan.chunk_size - 1) * plan.max_chunks_number < plan.file_size
               /\ plan.file_size <= plan.chunk_size * plan.max_chunks_number
        /\ plan.file_size % plan.max_chunks_number = 0 =>
               (plan.chunk_size - 1) * plan.max_chunks_number = plan.file_size

RecomputedOnExactMultiple ==
    /\ plan.stage = "planned"
    /\ plan.recomputed
    /\ plan.max_chunks_number >= 2
    /\ plan.file_size % plan.max_chunks_number = 0

(***************************************************************************)
(* Properties of the multipart session (SpecWriter).                       *)
(***************************************************************************)
UploadIds == 1..Len(uploads)

IsStrictlyAscending(m) ==
    \A i \in 1..(Len(m) - 1) : m[i].PartNumber < m[i + 1].PartNumber

ManifestStrictlyAscending ==
    \A u \in UploadIds :
        LET up == uploads[u]
        IN  up.Completes > 0 =>
                /\ IsStrictlyAscending(up.Manifest)
                /\ (w.upload_id = u
                    /\ {w.submitted[i] : i \in 1..Len(w.submitted)} = 1..w.part_num
                    /\ Len(up.Manifest) = w.part_num) =>
                       \A i \in 1..w.part_num : up.Manifest[i].PartNumber = i

ShuffledPartsFinalized ==
    /\ w.closed
    /\ uploads[w.upload_id].Completes = 1
    /\ w.part_num >= 3
    /\ Len(uploads[w.upload_id].Manifest) = w.part_num
    /\ w.submitted[1] > w.submitted[2]

(***************************************************************************)
(* Properties of one upload / download call (Spec).                        *)
(***************************************************************************)
ScheduledJobs == {f \in Paths : files[f].size # None}

\* the pool tasks whose coroutine has started and not ended
PoolRunning == {f \in Paths : pc = "pool" /\ job[f].st = "run"}

RECURSIVE SumOfSizes(_)
SumOfSizes(S) ==
    IF S = {} THEN 0
    ELSE LET f == CHOOSE x \in S : TRUE
         IN  files[f].size + SumOfSizes(S \ {f})

Occurrences(seq, x) == Cardinality({i \in 1..Len(seq) : seq[i] = x})

\* the call has ended with retry_count >= 1 and every job it scheduled
\* returned True or False (no coroutine ended with an exception)
ReturnedAllJobsDecided ==
    /\ pc = "returned"
    /\ cfg.num_retries >= 1
    /\ \A f \in ScheduledJobs : job[f].result \in {"True", "False"}

\* C1: in the single-stream upload path and in download, with worker_count
\* N >= 1, at most N jobs execute their copy at any time, and the submitter
\* starts a job only when fewer than N are running (it waits for a slot).
PoolNeverOversubscribed ==
    /\ [](cfg.num_workers >= 1 => Cardinality(PoolRunning) <= cfg.num_workers)
    /\ [][(cfg.num_workers >= 1 /\ pc = "pool"
            /\ \E f \in Paths : job[f].st = "none" /\ job'[f].st = "run")
            => Cardinality(PoolRunning) < cfg.num_workers]_vars

PoolSaturatedWithJobPending ==
    /\ pc = "pool"
    /\ cfg.num_workers = 2
    /\ Cardinality(PoolRunning) = 2
    /\ idx <= Len(small_files)
    /\ files[small_files[idx]].size # None

\* C6: when the call returns, a job that failed every attempt is in the
\* returned FailureList exactly once, whatever its kind (single-stream
\* upload, download, multipart upload).
ExhaustedJobListedOnce ==
    pc = "returned" =>
        \A f \in ScheduledJobs :
            job[f].result = "False" => Occurrences(error_files, f) = 1

FailureListOnlyExhaustedJobs ==
    /\ [](\A i \in 1..Len(error_files) :
             /\ error_files[i] \in ScheduledJobs
             /\ job[error_files[i]].result = "False"
             /\ \A k \in 1..Len(job[error_files[i]].log) :
                    job[error_files[i]].log[k] = "fail")
    /\ [][/\ Len(error_files') >= Len(error_files)
          /\ SubSeq(error_files', 1, Len(error_files)) = error_files]_vars

FailureListBesideSuccess ==
    /\ pc = "returned"
    /\ Len(error_files) >= 1
    /\ \E f \in Paths : job[f].result = "True"

\* C9: when the call returns, bytes-completed equals the sum of the declared
\* sizes of the scheduled jobs, for every pattern of failed and successful
\* attempts, also when a failed attempt had already counted some chunks.
\* (Stated for the calls the claim is about: retry_count >= 1 and every job
\* ended in success or exhaustion.)
BytesCompletedEqualsDeclared ==
    ReturnedAllJobsDecided => bytes_n = SumOfSizes(ScheduledJobs)

\* C10: every scheduled job advances files-completed by one, once, at its
\* terminal outcome: files-completed never decreases, never exceeds the
\* number of scheduled jobs, and equals it when the call returns.
\* (Stated for retry_count >= 1.)
FilesCompletedCountsEveryJob ==
    cfg.num_retries >= 1 =>
        /\ files_n <= Cardinality(ScheduledJobs)
        /\ files_n >= Cardinality({f \in ScheduledJobs : job[f].st = "done"})
        /\ pc = "returned" => files_n = Cardinality(ScheduledJobs)

(***************************************************************************)
(* Properties of the multipart jobs of one upload call (Spec).             *)
(***************************************************************************)

\* the session of the running (or last) multipart attempt has been closed
SessionClosed == w.upload_id # 0 /\ w.closed

\* the last attempt of the multipart job at hand ended in the except clause
LastAttemptFailed ==
    /\ mp.file # 0
    /\ job[mp.file].log # <<>>
    /\ job[mp.file].log[Len(job[mp.file].log)] = "fail"

\* C11: every session the engine opens is closed by a finalize or an abort
\* call (none is left open when the call returns), and when the attempt that
\* owns the session exits without completing, the call issued is abort: the
\* session of a failed attempt is never finalized.
FailedAttemptAbortsSession ==
    /\ pc = "returned" =>
           \A u \in UploadIds : uploads[u].Completes + uploads[u].Aborts = 1
    /\ (pc = "job" /\ SessionClosed /\ LastAttemptFailed) =>
           /\ uploads[w.upload_id].Aborts = 1
           /\ uploads[w.upload_id].Completes = 0

\* C12: whenever finalize is issued for a multipart job, the session holds
\* exactly chunk_count PartRecords, one for each planned chunk; in every
\* other case the session is aborted and the attempt is marked failed.
FinalizeOnlyWithAllPartRecords ==
    (mp.file # 0 /\ SessionClosed) =>
        IF uploads[w.upload_id].Completes > 0
        THEN /\ Len(w.part_info) = mp.chunks_number
             /\ \A k \in 1..mp.chunks_number : w.part_info[k].PartNumber = k
        ELSE /\ uploads[w.upload_id].Aborts = 1
             /\ (pc = "job" => LastAttemptFailed)

\* C13: each attempt of a multipart job opens a new session with an upload
\* id never handed out before, an empty PartRecord collection and a part
\* counter of zero, and submits the parts from part 1 on, in order, without
\* a gap; an attempt that runs to its end has submitted 1..chunk_count.
FreshSessionPerAttempt ==
    /\ []((pc = "job" /\ w.entered) =>
            /\ uploads[w.upload_id].Key = mp.file
            /\ w.part_num = Len(w.submitted)
            /\ \A i \in 1..Len(w.submitted) : w.submitted[i] = i
            /\ Len(w.submitted) <= mp.chunks_number
            /\ Len(w.part_info) <= Len(w.submitted)
            /\ \A i \in 1..Len(w.part_info) :
                   w.part_info[i].PartNumber \in 1..Len(w.submitted)
            /\ (w.closed /\ ~mp.exc) => Len(w.submitted) = mp.chunks_number)
    /\ [][(pc = "job" /\ Len(uploads') > Len(uploads)) =>
            /\ w'.upload_id \notin UploadIds
            /\ Len(uploads') = Len(uploads) + 1
            /\ w'.upload_id = Len(uploads')
            /\ uploads'[w'.upload_id].Parts = {}
            /\ w'.part_num = 0
            /\ w'.part_info = <<>>
            /\ w'.submitted = <<>>
            /\ mp'.part = 1]_vars

SecondAttemptResubmitsAllParts ==
    /\ pc = "job"
    /\ job[mp.file].retries = 2
    /\ w.upload_id = 2
    /\ uploads[1].Key = mp.file
    /\ uploads[1].Aborts = 1
    /\ mp.chunks_number >= 2
    /\ Len(w.submitted) = mp.chunks_number

\* the sessions of file f that ended in a part-count mismatch (abort is
\* issued exactly on a mismatch)
MismatchedSessions(f) ==
    {u \in UploadIds : uploads[u].Key = f /\ uploads[u].Aborts = 1}

\* C14: a part-count mismatch at close aborts the session and is one failed
\* attempt of the owning job; the job goes on with its retry loop while
\* attempts remain, and when all retry_count attempts have ended in a
\* mismatch its path is in the FailureList, once, and nothing is raised out
\* of the call.
MismatchCountsAsFailedAttempt ==
    /\ []((mp.file # 0 /\ SessionClosed /\ w.listed # w.part_num) =>
            /\ uploads[w.upload_id].Aborts = 1
            /\ uploads[w.upload_id].Completes = 0
            /\ LastAttemptFailed
            /\ job[mp.file].result # "True"
            /\ (pc = "job" /\ job[mp.file].retries < cfg.num_retries) =>
                   job[mp.file].st = "run" /\ job[mp.file].phase \in {"loop", "open"})
    /\ [][(~w.closed /\ w'.closed /\ w'.listed # w'.part_num) =>
            /\ pc' = "job"
            /\ job'[mp.file].log = Append(job[mp.file].log, "fail")
            /\ job'[mp.file].retries = job[mp.file].retries
            /\ error_files' = error_files]_vars
    /\ []((cfg.num_retries >= 1 /\ cfg.num_workers >= 1) => pc # "raised")
    /\ []((pc = "returned" /\ cfg.num_retries >= 1) =>
            \A f \in Paths :
                Cardinality(MismatchedSessions(f)) = cfg.num_retries =>
                    /\ job[f].result = "False"
                    /\ Occurrences(error_files, f) = 1)

EveryAttemptMismatched ==
    /\ pc = "returned"
    /\ cfg.num_retries = 2
    /\ \E f \in Paths :
        /\ Cardinality(MismatchedSessions(f)) = 2
        /\ error_files = <<f>>

\* the sessions opened for file f
SessionsOf(f) == {u \in UploadIds : uploads[u].Key = f}

ExactPercentage(s, a) == ((s - a) * 100) \div s

\* C16: when close aborts with s > 0 parts submitted and a < s parts
\* acknowledged, the loss it reports is (s - a) * 100 / s cut to an integer;
\* for s = 13 and a = 12 it is 7.
LossIsTruncatedPercentage ==
    lossv.stage = "reported" =>
        /\ lossv.loss = ExactPercentage(lossv.part_num, lossv.uploaded_parts)
        /\ (lossv.part_num = 13 /\ lossv.uploaded_parts = 12) => lossv.loss = 7

(***************************************************************************)
(* Properties of the routing and scheduling of one call (Spec).            *)
(***************************************************************************)

StartedJobs == {f \in Paths : job[f].st # "none"}

\* C18: a job is started only for an entry that is a file of known size,
\* never twice for the same entry, never for a directory or an entry of
\* unknown size; when the call returns, the started jobs are exactly the
\* files of known size.
JobsAreTheSizedFiles ==
    /\ [](\A f \in StartedJobs : files[f].type = "file" /\ files[f].size # None)
    /\ [](pc = "returned" =>
            StartedJobs = {f \in Paths : files[f].type = "file" /\ files[f].size # None})
    /\ [][\A f \in Paths :
            (job'[f].st = "run" /\ job[f].st # "run") => job[f] = NoJob]_vars
    /\ [][\A f \in Paths : job[f].st # "none" => job'[f].st # "none"]_vars

UnsizedEntriesSkipped ==
    /\ pc = "returned"
    /\ \E f, g, h \in Paths :
        /\ files[f] = Dir
        /\ files[g] = FileNoSize
        /\ files[h].size # None
        /\ g < h
        /\ StartedJobs = {h}

(***************************************************************************)
(* Properties of write() (SpecWriter).                                     *)
(***************************************************************************)

\* C19: in a session where every write omits part_num, the k-th write is
\* submitted to the backend with part number k: the numbers start at 1 and
\* go up by one per write, without a gap or a repeat.
OmittedPartNumbersCountUp ==
    (\A i \in 1..Len(w.calls) : w.calls[i] = <<>>) =>
        /\ Len(w.submitted) = Len(w.calls)
        /\ w.part_num = Len(w.calls)
        /\ \A k \in 1..Len(w.submitted) : w.submitted[k] = k
        /\ \A x \in inflight : x.PartNumber = x.id
        /\ w.upload_id # 0 => uploads[w.upload_id].Parts \subseteq 1..Len(w.calls)
        /\ \A i \in 1..Len(w.part_info) : w.part_info[i].PartNumber \in 1..Len(w.calls)

ThreeOmittedWritesOutOfOrder ==
    /\ w.calls = <<<<>>, <<>>, <<>>>>
    /\ ~w.closed
    /\ Len(w.part_info) = 3
    /\ w.part_info[1].PartNumber = 3
    /\ uploads[w.upload_id].Parts = {1, 2, 3}

CallsArePermutation(n) ==
    /\ Len(w.calls) = n
    /\ \A i \in 1..n : w.calls[i] # <<>>
    /\ {w.calls[i][1] : i \in 1..n} = 1..n

\* C21: for every interleaving of n concurrent writes with the distinct
\* caller-supplied part numbers 1..n that all return, at close the submitted
\* count is n, the PartRecords hold each of the n numbers exactly once, and
\* finalize (never abort) is issued with the manifest 1..n, part k with the
\* tag the backend returned for part k.  Before the close no number is
\* recorded twice.
ConcurrentWritesKeepEveryPart ==
    \A n \in 1..MaxWrites :
        CallsArePermutation(n) =>
            /\ w.part_num = n
            /\ \A i, j \in 1..Len(w.part_info) :
                   w.part_info[i].PartNumber = w.part_info[j].PartNumber => i = j
            /\ (w.closed /\ Len(w.part_info) = n) =>
                   /\ w.listed = n
                   /\ \A k \in 1..n :
                          Cardinality({i \in 1..n : w.part_info[i].PartNumber = k}) = 1
                   /\ uploads[w.upload_id].Completes = 1
                   /\ uploads[w.upload_id].Aborts = 0
                   /\ Len(uploads[w.upload_id].Manifest) = n
                   /\ \A k \in 1..n :
                          /\ uploads[w.upload_id].Manifest[k].PartNumber = k
                          /\ uploads[w.upload_id].Manifest[k].ETag = k

\* three writes called as 2, 3, 1, all returned, and the session closed
InterleavedWritesFinalized ==
    /\ w.calls = <<<<2>>, <<3>>, <<1>>>>
    /\ w.closed
    /\ Len(w.part_info) = 3
    /\ uploads[w.upload_id].Completes = 1

(***************************************************************************)
(* Properties of the error handling of one call (Spec).                    *)
(***************************************************************************)

\* C22: with retry_count >= 1 (and a pool of worker_count >= 1 to run the
\* jobs), whatever fails in the jobs (source
\* unreadable, destination write failure, destination directory creation
\* failure, multipart mismatch), nothing is raised out of the call; the call
\* can always go on until it returns, and when it returns every scheduled
\* job has been run to a terminal outcome of its own: success, exhaustion
\* of its attempts, or the error of its directory creation.
JobFailuresStayInTheJob ==
    (cfg.num_retries >= 1 /\ cfg.num_workers >= 1) =>
        /\ pc # "raised"
        /\ pc # "returned" => ENABLED Next
        /\ pc = "returned" =>
               \A f \in ScheduledJobs :
                   /\ job[f].st = "done"
                   /\ job[f].result \in {"True", "False", "OSError"}
                   /\ job[f].result \in {"True", "False"} => job[f].retries >= 1
                   /\ job[f].result = "OSError" => cfg.op = "download"

\* a download in which one job could not create its directory, a later one
\* failed every attempt and a third one succeeded
FailedJobsBesideSuccessfulOne ==
    /\ pc = "returned"
    /\ cfg.op = "download"
    /\ \E f, g, h \in Paths :
        /\ f < g /\ g < h
        /\ job[f].result = "OSError"
        /\ job[g].result = "False"
        /\ job[h].result = "True"

\* C23: a call with a negative worker_count raises out of the call before
\* anything is copied: no job is started, no session is opened and no
\* backend write is issued, and the call never gets past the making of its
\* pool.
NegativeWorkerCountRaises ==
    cfg.num_workers < 0 =>
        /\ pc \in {"scan", "start", "raised"}
        /\ StartedJobs = {}
        /\ active = {}
        /\ uploads = <<>>
        /\ inflight = {}
        /\ error_files = <<>>
        /\ files_n = 0 /\ bytes_n = 0
        /\ pc = "scan" => ENABLED Scan
        /\ pc = "start" => ENABLED Start

NegativeWorkerCountRaised ==
    /\ pc = "raised"
    /\ cfg.num_workers < 0
    /\ cfg.num_retries >= 1
    /\ ScheduledJobs # {}

\* C24: an upload whose local source root does not exist, or a download
\* whose remote prefix does not exist, fails the whole call with a raised
\* error: such a call never returns (with an empty FailureList or any other).
MissingRootFailsCall ==
    ~cfg.root.exists => pc # "returned"

(***************************************************************************)
(* Properties of the local connector (SpecLocal).                          *)
(***************************************************************************)

\* the call did to the file system what its operation is for
Processed ==
    /\ lc.op = "copy" => lc.fs = [src |-> lc.fs0.src, dst |-> lc.fs0.src]
    /\ lc.op = "move" => lc.fs = [src |-> NodeAbsent, dst |-> lc.fs0.src]
    /\ lc.op = "remove" => lc.fs = [src |-> NodeAbsent, dst |-> lc.fs0.dst]

\* C25: copy, move and remove of the local connector raise a not-found error
\* when the source does not exist and an invalid-argument error when it is a
\* directory and recursive is false, and leave the file system as it was in
\* both cases; a file is processed for either value of recursive, a
\* directory only when recursive is true (and then unless the library call
\* itself refuses the destination, which again changes nothing).
LocalPathErrors ==
    lc.stage = "done" =>
        /\ lc.fs0.src.kind = "absent" =>
               lc.raised = "FileNotFoundError" /\ lc.fs = lc.fs0
        /\ (lc.fs0.src.kind = "dir" /\ ~lc.recursive) =>
               lc.raised = "ValueError" /\ lc.fs = lc.fs0
        /\ lc.fs0.src.kind = "file" => lc.raised = "none" /\ Processed
        /\ (lc.fs0.src.kind = "dir" /\ lc.recursive) =>
               /\ lc.raised \notin {"FileNotFoundError", "ValueError"}
               /\ IF lc.raised = "none" THEN Processed ELSE lc.fs = lc.fs0
               /\ (lc.op = "remove" \/ lc.fs0.dst.kind = "absent") => lc.raised = "none"
        /\ lc.raised # "none" => lc.fs = lc.fs0

DirectoryRefusedWithoutRecursive ==
    /\ lc.stage = "done"
    /\ lc.op = "move"
    /\ lc.fs0.src.kind = "dir"
    /\ ~lc.recursive
    /\ lc.raised = "ValueError"

(***************************************************************************)
(* Properties of the destination path (SpecRetarget).                      *)
(***************************************************************************)

\* C26: for every from_root, to_root and suffix, the destination path of
\* the entry from_root + suffix is exactly to_root + suffix, also when
\* from_root occurs again inside suffix or inside to_root.
RetargetKeepsSuffix ==
    rt.stage = "done" => rt.destination_path = rt.to_root \o rt.suffix

RootOccursAgainInSuffix ==
    /\ rt.stage = "done"
    /\ rt.from_root = <<"a">>
    /\ rt.suffix = <<"/", "a">>
    /\ rt.to_root = <<"a", "/">>
    /\ rt.destination_path = <<"a", "/", "/", "a">>

(***************************************************************************)
(* Properties of the path normalisation (SpecPaths).                       *)
(***************************************************************************)

\* CLI._prepare_paths returns its own output unchanged
CliPreparePathsIdempotent ==
    (pp.stage = "done" /\ pp.impl = "CLI") => pp.twice = pp.once

\* S3Util._prepare_paths returns its own output unchanged
S3UtilPreparePathsIdempotent ==
    (pp.stage = "done" /\ pp.impl = "S3Util") => pp.twice = pp.once

\* C27: path normalisation is idempotent: for every remote root and local
\* root, _prepare_paths (of CLI and of S3Util) applied to its own output
\* returns the same pair.
PreparePathsIdempotent ==
    CliPreparePathsIdempotent /\ S3UtilPreparePathsIdempotent

(***************************************************************************)
(* Properties of the progress of a multipart job (Spec).                   *)
(***************************************************************************)

\* the bytes of the chunks whose part records are in recs
RECURSIVE PartBytes(_)
PartBytes(recs) ==
    IF recs = <<>> THEN 0
    ELSE ChunkLen(files[mp.file].size, mp.chunk_size, recs[Len(recs)].PartNumber)
         + PartBytes(SubSeq(recs, 1, Len(recs) - 1))

\* bytes-completed goes up by the chunk's length, which is at least one
\* byte, with every part write that returns, while the job is running and
\* its session is open; and in an attempt the bytes counted are those of
\* the parts recorded, the file's size when every part is recorded
BytesCountedPerPart ==
    /\ [][(pc = "job" /\ Len(w'.part_info) = Len(w.part_info) + 1) =>
            LET n == ChunkLen(files[mp.file].size, mp.chunk_size,
                              w'.part_info[Len(w'.part_info)].PartNumber)
            IN  /\ bytes_n' = bytes_n + n
                /\ n >= 1
                /\ files_n' = files_n
                /\ job'[mp.file].st = "run"
                /\ ~w'.closed]_vars
    /\ []((pc = "job" /\ w.entered /\ ~w.closed) =>
            /\ bytes_n - mp.bytes0 = PartBytes(w.part_info)
            /\ Len(w.part_info) = mp.chunks_number =>
                   bytes_n - mp.bytes0 = files[mp.file].size)
    /\ []((mp.file # 0 /\ job[mp.file].result = "True"
            /\ Len(w.part_info) = mp.chunks_number) =>
               bytes_n - mp.bytes0 = files[mp.file].size)

DownloadedContentEqualsSource ==
    /\ [](cfg.op = "download" =>
            \A f \in Paths :
                /\ job[f].result = "True" => job[f].dst = SourceContent(files[f])
                /\ job[f].phase = "copy" =>
                       /\ job[f].pos = Len(job[f].dst)
                       /\ job[f].dst = SubSeq(SourceContent(files[f]), 1, job[f].pos))
    /\ [][cfg.op = "download" =>
            \A f \in Paths :
                (job[f].phase # "copy" /\ job'[f].phase = "copy") =>
                    job'[f].pos = 0 /\ job'[f].dst = <<>>]_vars

\* a file of three bytes downloaded on the second attempt, after a first
\* attempt that had written (and counted) two of them
SecondAttemptRewritesFromStart ==
    /\ cfg.op = "download"
    /\ pc = "returned"
    /\ Len(files) = 1
    /\ files[1].size = 3
    /\ job[1].result = "True"
    /\ job[1].log = <<"fail", "ok">>
    /\ bytes_n = 5
    /\ job[1].dst = <<1, 2, 3>>

(***************************************************************************)
(* Properties of a call without attempts (Spec).                           *)
(***************************************************************************)

\* C30: with retry_count = 0 every scheduled job makes no copy attempt and
\* ends as a failed job, counted in the progress and listed in the
\* FailureList, and no error leaves the job or the call.
ZeroRetriesFailEveryJob ==
    (cfg.num_retries = 0 /\ cfg.num_workers >= 1) =>
        /\ pc # "raised"
        /\ \A f \in Paths :
               /\ job[f].retries = 0
               /\ job[f].log = <<>>
               /\ job[f].st = "done" => job[f].result = "False"
        /\ pc = "returned" =>
               /\ \A f \in ScheduledJobs :
                      job[f].st = "done" /\ Occurrences(error_files, f) = 1
               /\ files_n = Cardinality(ScheduledJobs)
               /\ bytes_n = SumOfSizes(ScheduledJobs)

(***************************************************************************)
(* Properties of the chunk pool of a multipart attempt (Spec).             *)
(***************************************************************************)

\* the sessions the backend has been asked to finalize or to abort
ClosedSessions == {u \in UploadIds : uploads[u].Completes + uploads[u].Aborts > 0}

\* C31: within a multipart attempt the close of the session (list_parts,
\* then complete or abort) is issued only when every part write spawned for
\* the session has ended: no upload_part of an upload id is in flight when
\* that id is finalized or aborted, and none is issued for it afterwards.
CloseAfterEveryPartWrite ==
    /\ [](\A u \in ClosedSessions : u = w.upload_id => inflight = {})
    /\ [][/\ (w'.closed /\ ~w.closed) => inflight = {} /\ inflight' = {}
          /\ \A u \in UploadIds :
                 (uploads'[u].Completes # uploads[u].Completes
                    \/ uploads'[u].Aborts # uploads[u].Aborts) =>
                        /\ u = w.upload_id
                        /\ inflight = {}
          /\ inflight' \ inflight # {} =>
                 /\ w.upload_id \in UploadIds
                 /\ w.upload_id \notin ClosedSessions
                 /\ ~w.closed]_vars

\* a session was closed after the attempt's read of the third chunk raised
\* with two parts spawned, one stored and recorded, the other failed
ClosedAfterReadFailureWithParts ==
    /\ pc = "job"
    /\ mp.exc
    /\ w.closed
    /\ w.part_num = 2
    /\ Len(w.part_info) = 1
    /\ w.upload_id \in ClosedSessions
    /\ inflight = {}

(***************************************************************************)
(* Properties of the order of the jobs of a multipart upload (Spec).       *)
(***************************************************************************)

Elems(seq) == {seq[i] : i \in 1..Len(seq)}

\* the jobs of _upload_files and of _upload_files_multipart, once the lists
\* are split
SmallJobs == {f \in Elems(small_files) : HasSize(files[f])}
LargeJobs == {f \in Elems(large_files) : HasSize(files[f])}

\* the sessions the backend holds open: created, neither finalized nor aborted
OpenSessions == UploadIds \ ClosedSessions

RangeStart(chunk_size, k) == (k - 1) * chunk_size
RangeEnd(size, chunk_size, k) ==
    RangeStart(chunk_size, k) + ChunkLen(size, chunk_size, k)

RECURSIVE SumChunkLens(_, _, _)
SumChunkLens(size, chunk_size, n) ==
    IF n = 0 THEN 0
    ELSE ChunkLen(size, chunk_size, n) + SumChunkLens(size, chunk_size, n - 1)

\* C33: the ranges read for the parts 1..chunks_number of the plan of a file
\* of size s >= 1 are non-empty, pairwise disjoint and their lengths sum to
\* s, whether or not the chunk size was recomputed.
ChunkRangesTileFile ==
    plan.stage = "planned" =>
        LET s == plan.file_size
            cs == plan.chunk_size
            n == plan.chunks_number
        IN  /\ n >= 1
            /\ \A k \in 1..n :
                   /\ RangeStart(cs, k) < RangeEnd(s, cs, k)
                   /\ RangeEnd(s, cs, k) = Min(k * cs, s)
            /\ \A j, k \in 1..n :
                   j < k => RangeEnd(s, cs, j) <= RangeStart(cs, k)
            /\ SumChunkLens(s, cs, n) = s
            /\ RangeEnd(s, cs, n) = s

\* a plan with a recomputed chunk size, three parts, the last one shorter
RecomputedPlanWithShortLastPart ==
    /\ plan.stage = "planned"
    /\ plan.recomputed
    /\ plan.chunks_number = 3
    /\ ChunkLen(plan.file_size, plan.chunk_size, 3) < plan.chunk_size
    /\ SumChunkLens(plan.file_size, plan.chunk_size, 3) = plan.file_size

(***************************************************************************)
(* Properties of the manifest of a finalized session (SpecWriter).         *)
(***************************************************************************)

\* C34: whenever a session issues finalize, its manifest has one PartRecord
\* per submitted part: as many entries as the submitted-part counter says,
\* also when a part write raised after the counter was advanced.
ManifestHasEverySubmittedPart ==
    \A u \in UploadIds :
        (w.upload_id = u /\ w.closed /\ uploads[u].Completes > 0) =>
            /\ Len(uploads[u].Manifest) = w.part_num
            /\ Len(w.part_info) = w.part_num

(***************************************************************************)
(* Properties of mixed part numbering (SpecWriter).                        *)
(***************************************************************************)

\* the part numbers of the records the session holds
RecordedPartNumbers == {w.part_info[k].PartNumber : k \in 1..Len(w.part_info)}

\* C35: in a session that mixes writes with omitted and with caller-supplied
\* part numbers, the number a write with omitted part_num is given is never
\* one the session has already recorded.
AutoPartNumberNeverRecorded ==
    [][(/\ Len(w'.calls) = Len(w.calls) + 1
        /\ w'.calls[Len(w'.calls)] = <<>>
        /\ Len(w'.submitted) = Len(w.submitted) + 1) =>
            w'.submitted[Len(w'.submitted)] \notin RecordedPartNumbers]_vars

(***************************************************************************)
(* Properties of copy and move of the S3 connector (SpecS3).               *)
(***************************************************************************)

\* what follows src_key in the key of an object of the source directory
SuffixOf(key) == SubSeq(key, Len(s3.src_key) + 1, Len(key))

\* C36: move never loses data: every object it has deleted has a copy under
\* dst when move returns, and when a copy failed nothing is deleted; for
\* every src and dst, also with dst under src and with objects added under
\* src between the two listings.
MoveNeverLosesData ==
    s3.op = "move" =>
        /\ s3.stage = "returned" =>
               \A d \in s3.deleted :
                   \E o \in s3.objects :
                       startswith(o.Key, s3.dst_key) /\ o.Data = d.Data
        /\ s3.raised = "copy" => s3.deleted = {}
        /\ s3.stage = "copy" => s3.deleted = {}

\* C37: recursive copy puts every object src_key + suffix it found at the
\* key dst_key + suffix, for every suffix, also when src_key occurs again in
\* the suffix or in dst_key.
CopyKeepsEverySuffix ==
    (s3.op = "copy" /\ s3.stage = "returned") =>
        \A o \in s3.listed :
            Object(s3.dst_key \o SuffixOf(o.Key), o.Data) \in s3.objects

(***************************************************************************)
(* Termination of a call (SpecLive).                                       *)
(***************************************************************************)

\* C38: with worker_count >= 1 and retry_count >= 1 every upload / download
\* call eventually returns, and when it returns every scheduled job has
\* reached its terminal outcome: none is running or waiting for a slot, and
\* no part upload is in flight.
EveryCallReturnsWithJobsEnded ==
    /\ (cfg.num_workers >= 1 /\ cfg.num_retries >= 1) => <>(pc = "returned")
    /\ []((cfg.num_workers >= 1 /\ cfg.num_retries >= 1 /\ pc = "returned") =>
            /\ active = {}
            /\ inflight = {}
            /\ \A f \in ScheduledJobs : job[f].st = "done" /\ job[f].phase = "end")

\* a call returned after two pool jobs had run side by side and one of them
\* had used up its attempts
ReturnedAfterConcurrentJobs ==
    /\ pc = "returned"
    /\ cfg.num_workers = 2
    /\ cfg.num_retries >= 1
    /\ Cardinality(ScheduledJobs) >= 2
    /\ \E f \in ScheduledJobs : job[f].result = "False"
    /\ \E f \in ScheduledJobs : job[f].result = "True"

(***************************************************************************)
(* Properties of a call without workers (Spec).                            *)
(***************************************************************************)

\* C39: with worker_count = 0 and at least one schedulable file the call
\* does not block forever: as long as it has neither returned nor raised,
\* some coroutine of it can take a step.
ZeroWorkersNeverBlock ==
    (cfg.num_workers = 0 /\ pc \notin {"scan", "start"} /\ ScheduledJobs # {}
        /\ pc \notin {"returned", "raised"}) => ENABLED Next

====
